---------------------------- MODULE Spec2Model ----------------------------
(***************************************************************************)
(* Backup/restore engine of the Configurator (conf_backup.c): the restore  *)
(* of a backup document against the live instance store.                   *)
(*                                                                         *)
(* The engine's own code (deletion planner, add/set, family-link filler,   *)
(* topological sorter, restore loop) is translated from the source.  The   *)
(* instance store behind cfg_process_msg() and the agent synchroniser      *)
(* cfg_ta_sync() are collaborators whose code is elsewhere: they are       *)
(* modelled by their contract, with nondeterministic statuses.             *)
(***************************************************************************)
EXTENDS Integers, Sequences, FiniteSets, TLC

(***************************************************************************)
(* Bounds of the model.                                                    *)
(***************************************************************************)
\* most subtrees passed to a client call
MaxSubtrees == 3
\* size of the scratch buffer of cfg_backup_wrapper() (RCF_MAX_PATH)
BufSize == 16
\* longest backup document (number of <instance> nodes)
MaxDoc == 2
\* largest live store (number of instances) at the start and after a sync
MaxLive == 3
\* statuses other than the store's regular answer it may inject per restore
MaxFaults == 1
\* changes cfg_ta_sync() may make to the live store per restore
MaxSyncChanges == 1
\* the same, for the runs that exercise the loop bound
LoopSyncChanges == 12
\* longest desired-state list handed to the sorter and to fill_children() alone
MaxList == 4

(***************************************************************************)
(* OID strings.  An OID is kept in the state as a TLA+ string; the code's  *)
(* character loops run over Chars(oid), its characters.                    *)
(***************************************************************************)
Chars(oid) ==
    CASE oid = "/a:1"         -> <<"/","a",":","1">>
      [] oid = "/a:1/c:1"     -> <<"/","a",":","1","/","c",":","1">>
      [] oid = "/a:1/w:1"     -> <<"/","a",":","1","/","w",":","1">>
      [] oid = "/b:1"         -> <<"/","b",":","1">>
      [] oid = "/u:1"         -> <<"/","u",":","1">>
      [] oid = "/u:1/x:1"     -> <<"/","u",":","1","/","x",":","1">>
      [] oid = "/v:1"         -> <<"/","v",":","1">>
      [] oid = "/agent:A"     -> <<"/","a","g","e","n","t",":","A">>
      [] oid = "/agent:A/x:1" -> <<"/","a","g","e","n","t",":","A","/","x",":","1">>
      [] oid = "/"            -> <<"/">>
      [] oid = "/a"           -> <<"/","a">>
      [] oid = "/a:10"        -> <<"/","a",":","1","0">>
      [] oid = "/a:1-d"       -> <<"/","a",":","1","-","d">>
      [] oid = "/a:1/b:2"     -> <<"/","a",":","1","/","b",":","2">>
      [] oid = "/a:10/c:1"    -> <<"/","a",":","1","0","/","c",":","1">>
      [] oid = "/a:1/b:2/c:1" -> <<"/","a",":","1","/","b",":","2","/","c",":","1">>

\* the character code of a character (ASCII), 0 for the terminating NUL
Code(ch) ==
    CASE ch = "NUL" -> 0
      [] ch = "-" -> 45
      [] ch = "/" -> 47
      [] ch = "0" -> 48
      [] ch = "1" -> 49
      [] ch = "2" -> 50
      [] ch = ":" -> 58
      [] ch = "A" -> 65
      [] ch = "a" -> 97
      [] ch = "b" -> 98
      [] ch = "c" -> 99
      [] ch = "d" -> 100
      [] ch = "e" -> 101
      [] ch = "g" -> 103
      [] ch = "n" -> 110
      [] ch = "t" -> 116
      [] ch = "u" -> 117
      [] ch = "v" -> 118
      [] ch = "w" -> 119
      [] ch = "x" -> 120
      [] ch = "y" -> 121

\* s[i] of a C string, i counted from 0: the terminating NUL after the end
At(s, i) == IF i < Len(s) THEN s[i + 1] ELSE "NUL"

\* strcmp_start(s1, s2): strncmp(s1, s2, strlen(s1)), 0 iff s2 begins with s1
strcmp_start(s1, s2) ==
    IF Len(s1) <= Len(s2) /\ SubSeq(s2, 1, Len(s1)) = s1 THEN 0 ELSE 1

\* strcmp(s1, s2) == 0
StrEq(s1, s2) == s1 = s2

(***************************************************************************)
(* The object registry (schema) the restores run against.                  *)
(***************************************************************************)
Instances ==
    {"/a:1", "/a:1/c:1", "/a:1/w:1", "/b:1", "/u:1", "/u:1/x:1", "/v:1",
     "/agent:A", "/agent:A/x:1"}

NULL == "NULL"
CFG_HANDLE_INVALID == "INVALID"

\* inst->obj: the object of an instance
ObjOf(oid) ==
    CASE oid = "/a:1"         -> "/a"
      [] oid = "/a:1/c:1"     -> "/a/c"
      [] oid = "/a:1/w:1"     -> "/a/w"
      [] oid = "/b:1"         -> "/b"
      [] oid = "/u:1"         -> "/u"
      [] oid = "/u:1/x:1"     -> "/u/x"
      [] oid = "/v:1"         -> "/v"
      [] oid = "/agent:A"     -> "/agent"
      [] oid = "/agent:A/x:1" -> "/agent/x"

\* the father of an instance in the live tree (NULL under the root instance)
ParentOf(oid) ==
    CASE oid = "/a:1/c:1"     -> "/a:1"
      [] oid = "/a:1/w:1"     -> "/a:1"
      [] oid = "/u:1/x:1"     -> "/u:1"
      [] oid = "/agent:A/x:1" -> "/agent:A"
      [] OTHER                -> NULL

\* obj->access
Access(obj) ==
    CASE obj = "/a/w"   -> "CFG_READ_WRITE"
      [] obj = "/agent" -> "CFG_READ_ONLY"
      [] OTHER          -> "CFG_READ_CREATE"

\* obj->type
Type(obj) ==
    CASE obj \in {"/a", "/u/x"} -> "CVT_INT32"
      [] OTHER                  -> "CVT_NONE"

\* obj->vol
Vol(obj) == obj = "/v"

\* obj->unit
Unit(obj) == obj = "/u"

\* obj->unit_part: an ancestor object is a unit
UnitPart(obj) == obj = "/u/x"

\* the objects an object depends on: its father object and its <depends>
DependsOn(obj) ==
    CASE obj = "/a/c"     -> {"/a", "/b"}
      [] obj = "/a/w"     -> {"/a"}
      [] obj = "/b"       -> {"/a"}
      [] obj = "/u/x"     -> {"/u"}
      [] obj = "/agent/x" -> {"/agent"}
      [] OTHER            -> {}

Objects == {ObjOf(i) : i \in Instances}

\* obj->dependants != NULL
HasDependants(obj) == \E o \in Objects : obj \in DependsOn(o)

\* obj->ordinal_number: above the ordinal of everything the object depends on
RECURSIVE Ordinal(_)
Ordinal(obj) ==
    IF DependsOn(obj) = {} THEN 1
    ELSE 1 + (CHOOSE m \in {Ordinal(o) : o \in DependsOn(obj)} :
                  \A n \in {Ordinal(o) : o \in DependsOn(obj)} : n <= m)

Ord(oid) == Ordinal(ObjOf(oid))

\* cfg_instance_volatile(inst)
cfg_instance_volatile(oid) == Vol(ObjOf(oid))

\* cfg_inst_agent(inst): the instance is an agent root, /agent:<name>
cfg_inst_agent(oid) == ObjOf(oid) = "/agent"

\* the value a value-bearing instance has in every backup document here
DocVal(oid) == 1

(***************************************************************************)
(* Sorting.  qsort() leaves the order of elements that compare equal       *)
(* unspecified: every arrangement the comparator accepts is a result.      *)
(***************************************************************************)
Range(seq) == {seq[j] : j \in 1..Len(seq)}

Arrangements(S) ==
    {p \in [1..Cardinality(S) -> S] : \A j, k \in 1..Cardinality(S) : j # k => p[j] # p[k]}

(***************************************************************************)
(* alpha_qsort_predicate(): the child-first order of OIDs.                 *)
(***************************************************************************)
\* a faulty comparator, which compares byte by byte as strcmp() does
RECURSIVE AlphaPlain(_, _, _)
AlphaPlain(oid1, oid2, i) ==
    LET c1 == At(oid1, i)
        c2 == At(oid2, i)
    IN  IF Code(c1) < Code(c2) THEN -1
        ELSE IF Code(c1) > Code(c2) THEN 1
        ELSE IF c1 = "NUL" \/ c2 = "NUL" THEN 0
        ELSE AlphaPlain(oid1, oid2, i + 1)

RECURSIVE AlphaFrom(_, _, _)
AlphaFrom(oid1, oid2, i) ==
    LET c1 == At(oid1, i)
        c2 == At(oid2, i)
    IN  IF c1 = "/" /\ c2 # "/" /\ c2 # "NUL" THEN -1
        ELSE IF c1 # "/" /\ c1 # "NUL" /\ c2 = "/" THEN 1
        ELSE IF Code(c1) < Code(c2) THEN -1
        ELSE IF Code(c1) > Code(c2) THEN 1
        ELSE IF c1 = "NUL" \/ c2 = "NUL" THEN 0
        ELSE AlphaFrom(oid1, oid2, i + 1)

alpha_qsort_predicate(i1, i2) == AlphaFrom(Chars(i1), Chars(i2), 0)

\* what qsort() may leave of the descriptors under alpha_qsort_predicate()
AlphaSorted(S) ==
    {p \in Arrangements(S) :
        \A j \in 1..(Cardinality(S) - 1) : alpha_qsort_predicate(p[j], p[j + 1]) <= 0}

(***************************************************************************)
(* fill_children(): father/son/brother links of the desired-state list.    *)
(***************************************************************************)
\* the level of an instance: the number of "/" in its OID
Level(oid) == Cardinality({j \in 1..Len(Chars(oid)) : Chars(oid)[j] = "/"})

\* the links of a list as calloc() leaves them
NoFamily(S) ==
    [father  |-> [d \in S |-> NULL],
     son     |-> [d \in S |-> NULL],
     brother |-> [d \in S |-> NULL]]

\* while (parent != NULL && prev_level > level) parent = parent->father
RECURSIVE WalkUp(_, _, _, _)
WalkUp(father, parent, prev_level, level) ==
    IF parent # NULL /\ prev_level > level
    THEN WalkUp(father, father[parent], prev_level - 1, level)
    ELSE parent

\* the loop over the sorted array refs, from its i-th element (i from 1)
RECURSIVE FillFrom(_, _, _, _)
FillFrom(refs, i, prev_level, fam) ==
    IF i > Len(refs) THEN [rc |-> "OK", fam |-> fam]
    ELSE
      LET level  == Level(refs[i])
          parent == IF prev_level >= 0 /\ prev_level < level
                    THEN refs[i - 1]
                    ELSE IF prev_level > level
                    THEN WalkUp(fam.father, fam.father[refs[i - 1]], prev_level, level)
                    ELSE IF i = 1 THEN NULL ELSE fam.father[refs[i - 1]]
      IN  IF prev_level >= 0 /\ prev_level < level /\ prev_level < level - 1
          THEN [rc |-> "TE_EINVAL", fam |-> fam]
          ELSE IF parent = NULL
          THEN FillFrom(refs, i + 1, level, fam)
          ELSE IF strcmp_start(Chars(parent), Chars(refs[i])) # 0
          THEN [rc |-> "TE_EINVAL", fam |-> fam]
          ELSE FillFrom(refs, i + 1, level,
                        [father  |-> [fam.father EXCEPT ![refs[i]] = parent],
                         son     |-> [fam.son EXCEPT ![parent] = refs[i]],
                         brother |-> [fam.brother EXCEPT ![refs[i]] = fam.son[parent]]])

\* a faulty fill_children(), which links nothing and succeeds
fill_children_unlinked(refs) == [rc |-> "OK", fam |-> NoFamily(Range(refs))]

\* fill_children() once qsort() has arranged the array as refs
fill_children(refs) == FillFrom(refs, 1, -1, NoFamily(Range(refs)))

(***************************************************************************)
(* topo_sort_instances(): merge sort of the list by object ordinal.        *)
(***************************************************************************)
\* a faulty merge step, which takes the larger ordinal first
ChosenLarger(first, second) ==
    IF Ord(Head(first)) > Ord(Head(second)) THEN "first" ELSE "second"

\* a faulty merge step, which always takes the head of first
ChosenFirst(first, second) == "first"

\* the element the merge takes next: the head of first or of second
Chosen(first, second) ==
    IF Ord(Head(first)) < Ord(Head(second)) THEN "first" ELSE "second"

RECURSIVE Merge(_, _)
Merge(first, second) ==
    IF first = <<>> THEN second
    ELSE IF second = <<>> THEN first
    ELSE IF Chosen(first, second) = "first"
    THEN <<Head(first)>> \o Merge(Tail(first), second)
    ELSE <<Head(second)>> \o Merge(first, Tail(second))

RECURSIVE topo_sort_instances_rec(_)
topo_sort_instances_rec(l) ==
    IF Len(l) <= 1 THEN l
    ELSE Merge(topo_sort_instances_rec(SubSeq(l, 1, Len(l) \div 2)),
               topo_sort_instances_rec(SubSeq(l, Len(l) \div 2 + 1, Len(l))))

\* the post-pass only logs
topo_sort_instances(l) == topo_sort_instances_rec(l)

(***************************************************************************)
(* State.                                                                  *)
(***************************************************************************)
VARIABLES
    doc,             \* the <instance> nodes of the backup document, in order
    subtrees,        \* the subtree filter (<<>>: the root subtree)
    live,            \* cfg_all_inst: instance -> its value, 0 when absent
    faults,          \* statuses the store may still inject
    budget,          \* changes cfg_ta_sync() may still make
    list,            \* the desired-state list along bkp_next
    fam,             \* father/son/brother of the desired-state list
    added,           \* the descriptors of the list with added = true
    handle,          \* descriptor -> its handle
    pc,              \* where the restore is
    rc,              \* the status the restore returned
    exit,            \* the return statement the restore left through
    deps_might_fire, change_made, need_retry, n_iterations,
    iter,            \* position of the list walk
    sorted,          \* remove_excessive(): the candidates not visited yet
    plan,            \* the DELs left of the current delete_with_children()
    todo,            \* the descriptors left of the current restore_entry()
    change_made_aux,
    passes,          \* outer passes started
    nsync,           \* calls of cfg_ta_sync() in the outer loop
    nwalk,           \* walks of the list started
    ncall,           \* calls of restore_entry()
    msgs,            \* the ADD, SET and COMMIT messages issued, in order
    dels,            \* the DEL messages of the current delete phase, in order
    matched          \* the live store matched the document when the restore began

(***************************************************************************)
(* State of the OID functions taken alone: the comparator of fill_children *)
(* and the subtree test of remove_excessive().                             *)
(***************************************************************************)
VARIABLES
    oids,            \* the OIDs handed to the functions: <<x, y, z>>
    filter,          \* the subtrees handed to check_oid_contains_subtrees()
    verdict          \* what the functions returned

oid_vars == <<oids, filter, verdict>>

(***************************************************************************)
(* State of the client side: cfg_backup_verify_and_restore() and the       *)
(* BACKUP messages of cfg_backup_wrapper().                                *)
(***************************************************************************)
VARIABLES
    filename,        \* the file name passed in, a string of characters
    args,            \* the subtrees passed in, strings of characters
    cpc,             \* where cfg_backup_verify_and_restore() is
    crc,             \* the status it returned
    wire,            \* operation and status of each BACKUP message sent, in order
    msg              \* the BACKUP message sent last

client_vars == <<filename, args, cpc, crc, wire, msg>>

(***************************************************************************)
(* State of reading a backup document: cfg_backup_process_file() up to     *)
(* the call of restore_entries().                                          *)
(***************************************************************************)
VARIABLES
    xml,             \* the children of the <backup> node, in document order
    reg,             \* objects are registered (restore = false)
    rlive,           \* the live store the document is read against
    robjs,           \* the OIDs of the registered objects
    rcur,            \* the node register_objects() stopped at
    rpc,             \* where cfg_backup_process_file() is
    rrc,             \* its status
    rlist,           \* the list parse_instances() built
    rlog,            \* the REGISTER and ADD_DEPENDENCY messages sent, in order
    deperr,          \* the first error cfg_register_dependency() returned
    rexit,           \* the call cfg_backup_process_file() returned after
    rfreed           \* how many times the list has been freed

read_vars ==
    <<xml, reg, rlive, robjs, rcur, rpc, rrc, rlist, rlog, deperr, rexit, rfreed>>

(***************************************************************************)
(* State of writing a backup document: cfg_backup_create_file().           *)
(***************************************************************************)
VARIABLES
    wlive,           \* the live store written
    wsub,            \* the subtrees passed in
    wpc,             \* where cfg_backup_create_file() is
    wrc,             \* its status
    wobjs,           \* the <object> entries written, in order
    wout,            \* the <instance> entries written, in order
    wnext,           \* the subtree TE_VEC_FOREACH is at
    wmark,           \* how many <instance> entries earlier roots wrote
    wroot            \* the root written last (NULL: cfg_inst_root)

write_vars == <<wlive, wsub, wpc, wrc, wobjs, wout, wnext, wmark, wroot>>

\* what a restore leaves alone: its inputs, and the state of the other operations
config  == <<doc, subtrees, matched, oid_vars, client_vars, read_vars, write_vars>>
desired == <<list, fam, added, handle>>
flags   == <<deps_might_fire, change_made, need_retry, n_iterations>>
ghost   == <<passes, nsync, nwalk, ncall, msgs, dels>>
restore_vars ==
    <<doc, subtrees, live, faults, budget, list, fam, added, handle,
      pc, rc, exit, deps_might_fire, change_made, need_retry,
      n_iterations, iter, sorted, plan, todo, change_made_aux,
      passes, nsync, nwalk, ncall, msgs, dels, matched>>
vars == <<restore_vars, oid_vars, client_vars, read_vars, write_vars>>

\* the iteration limit of the outer loop
LoopLimit == 10

(***************************************************************************)
(* The instance store (conf_db, conf_main) and cfg_ta_sync().              *)
(***************************************************************************)
Present(l, i) == i # NULL /\ l[i] # 0

\* cfg_db_find(oid, &handle)
cfg_db_find(l, oid) == IF l[oid] # 0 THEN oid ELSE CFG_HANDLE_INVALID

\* CFG_INST_HANDLE_VALID(handle): the handle is that of a live instance
CFG_INST_HANDLE_VALID(l, h) == h # CFG_HANDLE_INVALID /\ l[h] # 0

\* cfg_all_inst[i]->added of a live instance: the store holds it as added
LiveAdded(l, i) == l[i] # 0

\* the live instances below an instance
RECURSIVE Below(_, _)
Below(l, i) ==
    LET sons == {s \in Instances : ParentOf(s) = i /\ l[s] # 0}
    IN  sons \cup UNION {Below(l, s) : s \in sons}

\* inst->son, inst->brother of a live instance: its sons, in the store's order
\* (i = NULL: the sons of the root instance)
SonOrder ==
    <<"/a:1", "/a:1/c:1", "/a:1/w:1", "/agent:A", "/agent:A/x:1", "/b:1",
      "/u:1", "/u:1/x:1", "/v:1">>
LiveSons(l, i) ==
    SelectSeq(SonOrder, LAMBDA s : ParentOf(s) = i /\ l[s] # 0)

\* the status the store gives a message when nothing goes wrong
RegularAdd(l, oid) ==
    IF ParentOf(oid) = NULL \/ l[ParentOf(oid)] # 0 THEN "OK" ELSE "TE_ENOENT"

\* the statuses the store may answer: the regular one, or an injected one
Answers(regular) ==
    {regular} \cup (IF faults > 0 THEN {"TE_ENOENT", "TE_EFAIL"} ELSE {})

\* the live store after an ADD or a SET that returned 0
StoreValue(l, oid, val) == [l EXCEPT ![oid] = val]

\* the live store after a DEL that returned 0: the instance and what is below it
StoreDel(l, oid) ==
    [i \in Instances |-> IF i = oid \/ i \in Below(l, oid) THEN 0 ELSE l[i]]

\* the value an instance is held with: its value, 1 when its type has none
Values(oid) == IF Type(ObjOf(oid)) = "CVT_NONE" THEN {1} ELSE {1, 2}

LiveCount(l) == Cardinality({i \in Instances : l[i] # 0})

\* what cfg_ta_sync() may make of the live store
SyncResults(l) ==
    {l} \cup
    (IF budget = 0 THEN {}
     ELSE {StoreDel(l, i) : i \in {j \in Instances : l[j] # 0}}
          \cup {StoreValue(l, i, v) :
                    i \in {j \in Instances : l[j] # 0 /\ Type(ObjOf(j)) # "CVT_NONE"},
                    v \in {1, 2}}
          \cup (IF LiveCount(l) >= MaxLive THEN {}
                ELSE UNION {{StoreValue(l, i, v) : v \in Values(i)} :
                            i \in {j \in Instances :
                                      l[j] = 0 /\ RegularAdd(l, j) = "OK"}}))

(***************************************************************************)
(* The deletion planner: remove_excessive(), delete_with_children().       *)
(***************************************************************************)
\* check_oid_contains_subtrees(subtrees, oid)
check_oid_contains_subtrees(st, oid) ==
    IF st = <<>>
    THEN strcmp_start(Chars("/"), Chars(oid)) = 0
    ELSE \E k \in 1..Len(st) : strcmp_start(Chars(st[k]), Chars(oid)) = 0

\* the slots remove_excessive() collects into its array
Deletable(l, st, i) ==
    /\ l[i] # 0
    /\ LiveAdded(l, i)
    /\ Access(ObjOf(i)) = "CFG_READ_CREATE"
    /\ check_oid_contains_subtrees(st, i)

\* a faulty comparator, by ascending ordinal
topo_qsort_ascending(i1, i2) == Ord(i1) - Ord(i2)

\* topo_qsort_predicate(): by descending ordinal
topo_qsort_predicate(i1, i2) == Ord(i2) - Ord(i1)

\* a faulty lookup, which finds no descriptor
InListNever(l, i) == FALSE

\* what qsort() may leave of the candidates under topo_qsort_predicate()
TopoSorted(S) ==
    {p \in Arrangements(S) :
        \A j \in 1..(Cardinality(S) - 1) : topo_qsort_predicate(p[j], p[j + 1]) <= 0}

\* the list has a descriptor with the OID of the instance
InList(l, i) == \E k \in 1..Len(l) : StrEq(Chars(l[k]), Chars(i))

\* a faulty test, which spares volatile instances only
SparedVolatileOnly(inst) == cfg_instance_volatile(inst)

\* delete_with_children() returns at once, deleting nothing
Spared(inst) ==
    \/ cfg_instance_volatile(inst)
    \/ Access(ObjOf(inst)) # "CFG_READ_CREATE"

\* a faulty test, under which the TE_ENOENT of a DEL is no failure
FailedButEnoent(st) == st \notin {"OK", "TE_ENOENT"}

\* delete_with_children(), remove_excessive(), restore_entries(): rc != 0
Failed(st) == st # "OK"

\* a faulty deletion, which forgets the sons of the instance
delete_without_children(l, inst) ==
    IF Spared(inst) THEN <<>> ELSE <<inst>>

\* the DEL messages of delete_with_children(inst), in the order it issues them
RECURSIVE delete_with_children(_, _), DeleteSons(_, _)
delete_with_children(l, inst) ==
    IF Spared(inst) THEN <<>>
    ELSE DeleteSons(l, LiveSons(l, inst)) \o <<inst>>
DeleteSons(l, sons) ==
    IF sons = <<>> THEN <<>>
    ELSE delete_with_children(l, Head(sons)) \o DeleteSons(l, Tail(sons))

(***************************************************************************)
(* add_or_set(), restore_entry_aux(), restore_entry().                     *)
(***************************************************************************)
\* the handle add_or_set() works with: found again by OID when not valid
Resolve(l, h, inst) ==
    IF ~CFG_INST_HANDLE_VALID(l, h) THEN cfg_db_find(l, inst) ELSE h

\* cfg_types[type].is_equal(val1, val2)
is_equal(v1, v2) == v1 = v2

\* a faulty decision, which sets the value of every live instance
add_or_set_blind(l, h, inst) ==
    IF Resolve(l, h, inst) # CFG_HANDLE_INVALID THEN "SET" ELSE "ADD"

\* what add_or_set() does: nothing, a failure of its own, a SET or an ADD
add_or_set(l, h, inst) ==
    IF cfg_inst_agent(inst) THEN "nothing"
    ELSE IF Resolve(l, h, inst) # CFG_HANDLE_INVALID
    THEN IF l[Resolve(l, h, inst)] = 0 THEN "TE_EINVAL"
         ELSE IF \/ Type(ObjOf(inst)) \in {"CVT_NONE", "CVT_UNSPECIFIED"}
                 \/ is_equal(DocVal(inst), l[Resolve(l, h, inst)])
         THEN "nothing"
         ELSE "SET"
    ELSE "ADD"

\* a faulty flag, which an ADD raises and a SET does not
HasDepsAddOnly(what, inst) == what = "ADD" /\ HasDependants(ObjOf(inst))

\* add_or_set(): *has_deps = true before the SET or the ADD of an instance
\* whose object has dependants
HasDeps(what, inst) == what \in {"ADD", "SET"} /\ HasDependants(ObjOf(inst))

\* the instances restore_entry_aux(inst, true) calls add_or_set() on, in order
RECURSIVE restore_entry_aux(_, _), RestoreBrothers(_, _)
restore_entry_aux(f, inst) == <<inst>> \o RestoreBrothers(f, f.son[inst])
RestoreBrothers(f, child) ==
    IF child = NULL THEN <<>>
    ELSE restore_entry_aux(f, child) \o RestoreBrothers(f, f.brother[child])

\* a faulty classification, under which every failure asks for another walk
OutcomeRetry(st) ==
    CASE st = "OK" -> "added"
      [] OTHER     -> "need_retry"

\* a faulty classification, under which TE_ENOENT aborts the restore
OutcomeAbort(st) ==
    CASE st = "OK" -> "added"
      [] OTHER     -> "return"

\* restore_entry_aux(): what the status of add_or_set() leads to
Outcome(st) ==
    CASE st = "OK"        -> "added"
      [] st = "TE_ENOENT" -> "need_retry"
      [] OTHER            -> "return"

\* a faulty test, which passes over unit_part descriptors only
SkippedUnitPartOnly(a, inst) == UnitPart(ObjOf(inst))

\* a faulty test, which passes over added descriptors only
SkippedAddedOnly(a, inst) == inst \in a

\* the walk of restore_entries() passes over the descriptor
Skipped(a, inst) == inst \in a \/ UnitPart(ObjOf(inst))

\* a faulty condition, which runs the walk again after every change
AgainOnChange(cm, nr) == cm

\* the inner loop runs the walk again
Again(cm, nr) == cm /\ nr

\* a faulty limit, which gives up after the first pass
BreakAtOnce(n) == TRUE

\* the outer loop gives up after this pass
Break(n) == n > LoopLimit

(***************************************************************************)
(* Initial states: a backup document, a subtree filter and a live store.   *)
(***************************************************************************)
\* documents: <instance> nodes of distinct OIDs, in any order
Docs ==
    UNION {Arrangements(S) : S \in {T \in SUBSET Instances : Cardinality(T) <= MaxDoc}}

\* live stores: every instance under a live father, or under the root
LiveStates ==
    {l \in [Instances -> 0..2] :
        /\ LiveCount(l) <= MaxLive
        /\ \A i \in Instances :
              l[i] # 0 => /\ l[i] \in Values(i)
                          /\ ParentOf(i) # NULL => l[ParentOf(i)] # 0}

Filters == {<<>>, <<"/a:1">>}

\* the live store holds what the document records, and nothing else that a
\* restore of the subtrees would delete
Matches(d, st, l) ==
    /\ \A k \in 1..Len(d) : l[d[k]] # 0 /\ is_equal(DocVal(d[k]), l[d[k]])
    /\ \A i \in Instances :
          (/\ l[i] # 0
           /\ ~cfg_instance_volatile(i)
           /\ Access(ObjOf(i)) = "CFG_READ_CREATE"
           /\ check_oid_contains_subtrees(st, i)) => InList(d, i)

\* no OID function is running
OidIdle ==
    /\ oids = <<>>
    /\ filter = <<>>
    /\ verdict = [op |-> "none"]

\* restore_entries() is entered with the list parse_instances() built
RestoreInit ==
    /\ doc \in Docs
    /\ subtrees \in Filters
    /\ live \in LiveStates
    /\ faults = MaxFaults
    /\ budget = IF doc = <<>> /\ subtrees = <<>> THEN LoopSyncChanges ELSE MaxSyncChanges
    /\ list = doc
    /\ fam = NoFamily(Range(doc))
    /\ added = {}
    /\ handle = [d \in Range(doc) |-> cfg_db_find(live, d)]
    /\ pc = "start"
    /\ rc = "OK"
    /\ exit = "none"
    /\ deps_might_fire = TRUE
    /\ change_made = FALSE
    /\ need_retry = FALSE
    /\ n_iterations = 0
    /\ iter = 1
    /\ sorted = <<>>
    /\ plan = <<>>
    /\ todo = <<>>
    /\ change_made_aux = FALSE
    /\ passes = 0
    /\ nsync = 0
    /\ nwalk = 0
    /\ ncall = 0
    /\ msgs = <<>>
    /\ dels = <<>>
    /\ matched = Matches(doc, subtrees, live)

\* no client call is running
ClientIdle ==
    /\ filename = <<>>
    /\ args = <<>>
    /\ cpc = "idle"
    /\ crc = "OK"
    /\ wire = <<>>
    /\ msg = [op |-> "none"]

\* no document is being read
ReadIdle ==
    /\ xml = <<>>
    /\ reg = FALSE
    /\ rlive = <<>>
    /\ robjs = {}
    /\ rcur = 1
    /\ rpc = "idle"
    /\ rrc = "OK"
    /\ rlist = <<>>
    /\ rlog = <<>>
    /\ deperr = "OK"
    /\ rexit = "none"
    /\ rfreed = 0

\* no document is being written
WriteIdle ==
    /\ wlive = <<>>
    /\ wsub = <<>>
    /\ wpc = "idle"
    /\ wrc = "OK"
    /\ wobjs = <<>>
    /\ wout = <<>>
    /\ wnext = 1
    /\ wmark = 0
    /\ wroot = NULL

Init ==
    /\ RestoreInit
    /\ OidIdle
    /\ ClientIdle
    /\ ReadIdle
    /\ WriteIdle

\* no restore is running
RestoreIdle ==
    /\ doc = <<>>
    /\ subtrees = <<>>
    /\ live = [i \in Instances |-> 0]
    /\ faults = 0
    /\ budget = 0
    /\ list = <<>>
    /\ fam = NoFamily({})
    /\ added = {}
    /\ handle = <<>>
    /\ pc = "idle"
    /\ rc = "OK"
    /\ exit = "none"
    /\ deps_might_fire = FALSE
    /\ change_made = FALSE
    /\ need_retry = FALSE
    /\ n_iterations = 0
    /\ iter = 1
    /\ sorted = <<>>
    /\ plan = <<>>
    /\ todo = <<>>
    /\ change_made_aux = FALSE
    /\ passes = 0
    /\ nsync = 0
    /\ nwalk = 0
    /\ ncall = 0
    /\ msgs = <<>>
    /\ dels = <<>>
    /\ matched = FALSE

\* the calls of free_instances(list) before a return statement of
\* restore_entries()
Freed(where) ==
    CASE where = "fill_children"    -> 0
      [] where = "remove_excessive" -> 1
      [] where = "restore_entry"    -> 1
      [] where = "commit"           -> 1
      [] where = "need_retry"       -> 1
      [] where = "break"            -> 1
      [] where = "end"              -> 1

\* return rc
Return(status, where) ==
    /\ pc' = "done"
    /\ rc' = status
    /\ exit' = where

(***************************************************************************)
(* restore_entries(): the links and the order of the list.                 *)
(***************************************************************************)
FillAndSort ==
    /\ pc = "start"
    /\ \E refs \in AlphaSorted(Range(list)) :
          /\ fam' = fill_children(refs).fam
          /\ IF fill_children(refs).rc # "OK"
             THEN /\ Return(fill_children(refs).rc, "fill_children")
                  /\ list' = list
             ELSE /\ list' = topo_sort_instances(list)
                  /\ pc' = "outer"
                  /\ UNCHANGED <<rc, exit>>
    /\ UNCHANGED <<config, live, faults, budget, added, handle, flags, iter,
                   sorted, plan, todo, change_made_aux, ghost>>

(***************************************************************************)
(* The outer loop: while (deps_might_fire), remove_excessive() first.      *)
(***************************************************************************)
OuterLoop ==
    /\ pc = "outer"
    /\ \/ /\ ~deps_might_fire
          /\ Return("OK", "end")
          /\ UNCHANGED <<deps_might_fire, sorted, passes, dels>>
       \/ /\ deps_might_fire
          /\ deps_might_fire' = FALSE
          /\ \E arr \in TopoSorted({i \in Instances : Deletable(live, subtrees, i)}) :
                sorted' = arr
          /\ passes' = passes + 1
          /\ dels' = <<>>
          /\ pc' = "remove_excessive"
          /\ UNCHANGED <<rc, exit>>
    /\ UNCHANGED <<config, live, faults, budget, desired, change_made, need_retry,
                   n_iterations, iter, plan, todo, change_made_aux,
                   nsync, nwalk, ncall, msgs>>

\* remove_excessive(): the next candidate, or the end of the delete phase
RemoveExcessive ==
    /\ pc = "remove_excessive"
    /\ plan = <<>>
    /\ \/ /\ sorted # <<>>
          /\ sorted' = Tail(sorted)
          /\ IF live[Head(sorted)] = 0 \/ InList(list, Head(sorted))
             THEN UNCHANGED <<plan, deps_might_fire>>
             ELSE /\ plan' = delete_with_children(live, Head(sorted))
                  /\ deps_might_fire' =
                        (deps_might_fire \/
                         \E d \in Range(delete_with_children(live, Head(sorted))) :
                             HasDependants(ObjOf(d)))
          /\ UNCHANGED <<pc, change_made, need_retry, iter, nwalk>>
       \/ /\ sorted = <<>>
          /\ change_made' = FALSE
          /\ need_retry' = FALSE
          /\ iter' = 1
          /\ nwalk' = nwalk + 1
          /\ pc' = "walk"
          /\ UNCHANGED <<sorted, plan, deps_might_fire>>
    /\ UNCHANGED <<config, live, faults, budget, desired, rc, exit, n_iterations,
                   todo, change_made_aux, passes, nsync, ncall, msgs, dels>>

\* delete_with_children(): one DEL message and the store's answer
DelMsg ==
    /\ pc = "remove_excessive"
    /\ plan # <<>>
    /\ \E st \in Answers("OK") :
          /\ faults' = IF st = "OK" THEN faults ELSE faults - 1
          /\ dels' = Append(dels, [oid |-> Head(plan), rc |-> st,
                                   top |-> Len(plan) = 1,
                                   present |-> live[Head(plan)] # 0])
          /\ IF ~Failed(st)
             THEN /\ live' = IF st = "OK" THEN StoreDel(live, Head(plan)) ELSE live
                  /\ plan' = Tail(plan)
                  /\ UNCHANGED <<pc, rc, exit>>
             ELSE /\ Return(st, "remove_excessive")
                  /\ UNCHANGED <<live, plan>>
    /\ UNCHANGED <<config, budget, desired, flags, iter, sorted, todo,
                   change_made_aux, passes, nsync, nwalk, ncall, msgs>>

(***************************************************************************)
(* The inner loop: the walk of the list.                                   *)
(***************************************************************************)
Walk ==
    /\ pc = "walk"
    /\ \/ /\ iter <= Len(list)
          /\ Skipped(added, list[iter])
          /\ iter' = iter + 1
          /\ UNCHANGED <<pc, rc, exit, change_made, need_retry, todo,
                         change_made_aux, nwalk, ncall>>
       \/ /\ iter <= Len(list)
          /\ ~Skipped(added, list[iter])
          /\ todo' = IF Unit(ObjOf(list[iter]))
                     THEN restore_entry_aux(fam, list[iter])
                     ELSE <<list[iter]>>
          /\ change_made_aux' = FALSE
          /\ ncall' = ncall + 1
          /\ pc' = "restore_entry"
          /\ UNCHANGED <<rc, exit, change_made, need_retry, iter, nwalk>>
       \/ /\ iter > Len(list)
          /\ Again(change_made, need_retry)
          /\ change_made' = FALSE
          /\ need_retry' = FALSE
          /\ iter' = 1
          /\ nwalk' = nwalk + 1
          /\ UNCHANGED <<pc, rc, exit, todo, change_made_aux, ncall>>
       \/ /\ iter > Len(list)
          /\ ~Again(change_made, need_retry)
          /\ IF need_retry
             THEN Return("TE_ENOENT", "need_retry")
             ELSE pc' = "sync" /\ UNCHANGED <<rc, exit>>
          /\ UNCHANGED <<change_made, need_retry, iter, todo, change_made_aux,
                         nwalk, ncall>>
    /\ UNCHANGED <<config, live, faults, budget, desired, deps_might_fire,
                   n_iterations, sorted, plan, passes, nsync, msgs, dels>>

\* restore_entry_aux(): add_or_set() on the next descriptor, and its status
AddOrSet ==
    /\ pc = "restore_entry"
    /\ todo # <<>>
    /\ LET inst  == Head(todo)
           local == Unit(ObjOf(list[iter]))
           what  == add_or_set(live, handle[inst], inst)
           sent  == what \in {"ADD", "SET"}
       IN  \E st \in (IF what = "nothing" THEN {"OK"}
                      ELSE IF what = "TE_EINVAL" THEN {"TE_EINVAL"}
                      ELSE IF what = "ADD" THEN Answers(RegularAdd(live, inst))
                      ELSE Answers("OK")) :
             /\ handle' = IF cfg_inst_agent(inst) THEN handle
                          ELSE [handle EXCEPT ![inst] = Resolve(live, handle[inst], inst)]
             /\ faults' = IF sent /\ st # (IF what = "ADD" THEN RegularAdd(live, inst) ELSE "OK")
                          THEN faults - 1 ELSE faults
             /\ msgs' = IF sent
                        THEN Append(msgs, [kind |-> what, oid |-> inst, local |-> local,
                                           rc |-> st, walk |-> nwalk, call |-> ncall,
                                           top |-> inst = list[iter], pass |-> passes])
                        ELSE msgs
             /\ deps_might_fire' = (deps_might_fire \/ HasDeps(what, inst))
             /\ live' = IF sent /\ st = "OK" THEN StoreValue(live, inst, DocVal(inst)) ELSE live
             /\ change_made_aux' = (change_made_aux \/ (sent /\ st = "OK"))
             /\ added' = IF Outcome(st) = "added" THEN added \cup {inst} ELSE added
             /\ need_retry' = (need_retry \/ Outcome(st) = "need_retry")
             /\ IF Outcome(st) # "return"
                THEN /\ todo' = Tail(todo)
                     /\ UNCHANGED <<pc, rc, exit>>
                ELSE /\ Return(st, "restore_entry")
                     /\ UNCHANGED todo
    /\ UNCHANGED <<config, budget, list, fam, change_made, n_iterations, iter,
                   sorted, plan, passes, nsync, nwalk, ncall, dels>>

\* restore_entry(): after restore_entry_aux() returned 0, the COMMIT of a unit
Commit ==
    /\ pc = "restore_entry"
    /\ todo = <<>>
    /\ change_made' = (change_made \/ change_made_aux)
    /\ \/ /\ ~Unit(ObjOf(list[iter])) \/ ~change_made_aux
          /\ iter' = iter + 1
          /\ pc' = "walk"
          /\ UNCHANGED <<rc, exit, faults, msgs>>
       \/ /\ Unit(ObjOf(list[iter])) /\ change_made_aux
          /\ \E st \in Answers("OK") :
                /\ faults' = IF st = "OK" THEN faults ELSE faults - 1
                /\ msgs' = Append(msgs, [kind |-> "COMMIT", oid |-> list[iter],
                                         local |-> FALSE, rc |-> st, walk |-> nwalk,
                                         call |-> ncall, top |-> TRUE, pass |-> passes])
                /\ IF st = "OK"
                   THEN /\ iter' = iter + 1
                        /\ pc' = "walk"
                        /\ UNCHANGED <<rc, exit>>
                   ELSE /\ Return(st, "commit")
                        /\ UNCHANGED iter
    /\ UNCHANGED <<config, live, budget, desired, deps_might_fire, need_retry,
                   n_iterations, sorted, plan, todo, change_made_aux,
                   passes, nsync, nwalk, ncall, dels>>

(***************************************************************************)
(* The end of an outer pass: cfg_ta_sync("/:") and the iteration limit.    *)
(***************************************************************************)
Sync ==
    /\ pc = "sync"
    /\ \E l \in (IF deps_might_fire THEN SyncResults(live) ELSE {live}) :
          /\ live' = l
          /\ budget' = IF l = live THEN budget ELSE budget - 1
    /\ nsync' = IF deps_might_fire THEN nsync + 1 ELSE nsync
    /\ n_iterations' = n_iterations + 1
    /\ IF Break(n_iterations)
       THEN Return("OK", "break")
       ELSE pc' = "outer" /\ UNCHANGED <<rc, exit>>
    /\ UNCHANGED <<config, faults, desired, deps_might_fire, change_made,
                   need_retry, iter, sorted, plan, todo, change_made_aux,
                   passes, nwalk, ncall, msgs, dels>>

Next ==
    \/ FillAndSort
    \/ OuterLoop
    \/ RemoveExcessive
    \/ DelMsg
    \/ Walk
    \/ AddOrSet
    \/ Commit
    \/ Sync

Spec == Init /\ [][Next]_vars

(***************************************************************************)
(* cfg_backup_create_file(): the document written from a live store.       *)
(***************************************************************************)
\* the <instance> entries put_instance() writes (inst = NULL: cfg_inst_root)
RECURSIVE put_instance(_, _), PutSons(_, _)
put_instance(l, inst) ==
    (IF inst = NULL THEN <<>>
     ELSE IF ~cfg_inst_agent(inst) /\ ~cfg_instance_volatile(inst) THEN <<inst>>
     ELSE <<>>) \o PutSons(l, LiveSons(l, inst))
PutSons(l, sons) ==
    IF sons = <<>> THEN <<>>
    ELSE put_instance(l, Head(sons)) \o PutSons(l, Tail(sons))

RECURSIVE PutSubtrees(_, _)
PutSubtrees(l, st) ==
    IF st = <<>> THEN <<>>
    ELSE put_instance(l, Head(st)) \o PutSubtrees(l, Tail(st))

cfg_backup_create_file(l, st) ==
    IF st = <<>> THEN [rc |-> "OK", doc |-> put_instance(l, NULL)]
    ELSE IF \E k \in 1..Len(st) : l[st[k]] = 0
    THEN [rc |-> "TE_ENOENT", doc |-> <<>>]
    ELSE [rc |-> "OK", doc |-> PutSubtrees(l, st)]

\* the documents cfg_backup_create_file() writes, with the values documents hold
BackupsOf(st) ==
    {cfg_backup_create_file(l, st).doc :
        l \in {m \in LiveStates :
                  /\ cfg_backup_create_file(m, st).rc = "OK"
                  /\ \A i \in Instances : m[i] # 0 => m[i] = DocVal(i)}}

(***************************************************************************)
(* The OID functions taken alone, on OIDs that share prefixes.             *)
(***************************************************************************)
OidPool == {"/a", "/a:1", "/a:10", "/a:1-d", "/a:1/b:2", "/b:1"}

FilterPool == {<<>>, <<"/a:1">>, <<"/a:10">>, <<"/b:1">>, <<"/b:1", "/a:1">>}

OidInit ==
    /\ oids \in OidPool \X OidPool \X OidPool
    /\ filter \in FilterPool
    /\ verdict = [op |-> "none"]
    /\ RestoreIdle
    /\ ClientIdle
    /\ ReadIdle
    /\ WriteIdle

\* alpha_qsort_predicate() on the pairs of <<x, y, z>>
Compare ==
    /\ verdict.op = "none"
    /\ verdict' = [op |-> "alpha",
                   xy |-> alpha_qsort_predicate(oids[1], oids[2]),
                   yx |-> alpha_qsort_predicate(oids[2], oids[1]),
                   yz |-> alpha_qsort_predicate(oids[2], oids[3]),
                   xz |-> alpha_qsort_predicate(oids[1], oids[3])]
    /\ UNCHANGED <<oids, filter, restore_vars, client_vars, read_vars, write_vars>>

\* check_oid_contains_subtrees() on the filter and x
Contain ==
    /\ verdict.op = "none"
    /\ verdict' = [op |-> "contains",
                   is |-> check_oid_contains_subtrees(filter, oids[1])]
    /\ UNCHANGED <<oids, filter, restore_vars, client_vars, read_vars, write_vars>>

OidNext ==
    \/ Compare
    \/ Contain

OidSpec == OidInit /\ [][OidNext]_vars

(***************************************************************************)
(* cfg_backup_restore_ta("A"): the restore of the subtree of one agent.    *)
(* The desired-state list is built from the live store, and the restore    *)
(* itself is restore_entries() with no subtree filter.                     *)
(***************************************************************************)
TaInit ==
    /\ doc = <<>>
    /\ subtrees = <<>>
    /\ live \in LiveStates
    /\ faults = MaxFaults
    /\ budget = MaxSyncChanges
    /\ list = <<>>
    /\ fam = NoFamily({})
    /\ added = {}
    /\ handle = <<>>
    /\ pc = "restore_ta"
    /\ rc = "OK"
    /\ exit = "none"
    /\ deps_might_fire = TRUE
    /\ change_made = FALSE
    /\ need_retry = FALSE
    /\ n_iterations = 0
    /\ iter = 1
    /\ sorted = <<>>
    /\ plan = <<>>
    /\ todo = <<>>
    /\ change_made_aux = FALSE
    /\ passes = 0
    /\ nsync = 0
    /\ nwalk = 0
    /\ ncall = 0
    /\ msgs = <<>>
    /\ dels = <<>>
    /\ matched = FALSE
    /\ OidIdle
    /\ ClientIdle
    /\ ReadIdle
    /\ WriteIdle

\* cfg_backup_restore_ta() up to its call of restore_entries(): the status of
\* cfg_ta_sync(), which left the store as live, then a descriptor with the
\* handle of every live instance whose OID begins with "/agent:A", in the
\* order of the slots of cfg_all_inst
RestoreTa ==
    /\ pc = "restore_ta"
    /\ \/ /\ Return("TE_EFAIL", "cfg_ta_sync")
          /\ UNCHANGED <<list, handle>>
       \/ /\ \E l \in Arrangements({i \in Instances :
                        live[i] # 0 /\ strcmp_start(Chars("/agent:A"), Chars(i)) = 0}) :
                /\ list' = l
                /\ handle' = [d \in Range(l) |-> d]
          /\ pc' = "start"
          /\ UNCHANGED <<rc, exit>>
    /\ UNCHANGED <<config, live, faults, budget, fam, added, flags, iter,
                   sorted, plan, todo, change_made_aux, ghost>>

TaNext ==
    \/ RestoreTa
    \/ Next

TaSpec == TaInit /\ [][TaNext]_vars

(***************************************************************************)
(* topo_sort_instances() and fill_children() on desired-state lists of any *)
(* shape: oids is the list as parse_instances() built it, of distinct      *)
(* descriptors, and verdict is what the function leaves.                   *)
(***************************************************************************)
ListInit ==
    /\ \E S \in {Instances,
                 {"/a:1", "/a:10", "/a:1-d", "/a:1/c:1", "/a:10/c:1",
                  "/a:1/b:2", "/a:1/b:2/c:1", "/b:1"}} :
          oids \in {l \in UNION {[1..n -> S] : n \in 0..MaxList} :
                       \A j, k \in DOMAIN l : j # k => l[j] # l[k]}
    /\ filter = <<>>
    /\ verdict = [op |-> "none"]
    /\ RestoreIdle
    /\ ClientIdle
    /\ ReadIdle
    /\ WriteIdle

\* restore_entries(): list = topo_sort_instances(list, list_size)
SortList ==
    /\ verdict.op = "none"
    /\ Range(oids) \subseteq Instances
    /\ verdict' = [op |-> "sort", out |-> topo_sort_instances(oids)]
    /\ UNCHANGED <<oids, filter, restore_vars, client_vars, read_vars, write_vars>>

\* restore_entries(): rc = fill_children(list, list_size), qsort() having
\* left the array of descriptors as refs
FillList ==
    /\ verdict.op = "none"
    /\ \E refs \in AlphaSorted(Range(oids)) :
          verdict' = [op   |-> "fill",
                      refs |-> refs,
                      rc   |-> fill_children(refs).rc,
                      fam  |-> fill_children(refs).fam]
    /\ UNCHANGED <<oids, filter, restore_vars, client_vars, read_vars, write_vars>>

ListNext ==
    \/ SortList
    \/ FillList

ListSpec == ListInit /\ [][ListNext]_vars

(***************************************************************************)
(* topo_qsort_predicate() on ordinals of the full width.  A uint32_t is    *)
(* kept as its two 16-bit halves, [hi, lo]; verdict holds the ordinals of  *)
(* the two slots and what the predicate returned.                          *)
(***************************************************************************)
\* the sign of (int)(ord2 - ord1), the difference taken modulo 2^32 and a
\* value from 2^31 on read as negative
topo_qsort_predicate_u32(ord1, ord2) ==
    LET lo == ord2.lo - ord1.lo
        hi == (ord2.hi - ord1.hi - (IF lo < 0 THEN 1 ELSE 0)) % 65536
    IN  IF hi >= 32768 THEN -1
        ELSE IF hi = 0 /\ lo % 65536 = 0 THEN 0
        ELSE 1

OrdInit ==
    /\ oids = <<>>
    /\ filter = <<>>
    /\ verdict \in [op   : {"ordinals"},
                    ord1 : [hi : {0, 1, 32767, 32768, 65535}, lo : {0, 1, 65535}],
                    ord2 : [hi : {0, 1, 32767, 32768, 65535}, lo : {0, 1, 65535}]]
    /\ RestoreIdle
    /\ ClientIdle
    /\ ReadIdle
    /\ WriteIdle

\* qsort() calls topo_qsort_predicate() on two slots
TopoCompare ==
    /\ verdict.op = "ordinals"
    /\ verdict' = [op   |-> "topo",
                   ord1 |-> verdict.ord1,
                   ord2 |-> verdict.ord2,
                   sign |-> topo_qsort_predicate_u32(verdict.ord1, verdict.ord2)]
    /\ UNCHANGED <<oids, filter, restore_vars, client_vars, read_vars, write_vars>>

OrdSpec == OrdInit /\ [][TopoCompare]_vars

(***************************************************************************)
(* cfg_backup_wrapper(): the BACKUP message of a client call.              *)
(***************************************************************************)
\* snprintf(buf + off, ..., "%s", str): the characters of str and a NUL
Snprintf(buf, off, str) ==
    [i \in 1..Len(buf) |->
        IF i - 1 >= off /\ i - 1 < off + Len(str) THEN str[i - off]
        ELSE IF i - 1 = off + Len(str) THEN "NUL"
        ELSE buf[i]]

\* the TE_VEC_FOREACH loop over the subtrees; "U" is a byte never written
RECURSIVE PackSubtrees(_, _)
PackSubtrees(st, rest) ==
    IF rest = <<>> THEN st
    ELSE PackSubtrees([subtrees_str  |-> Snprintf(st.subtrees_str, st.written + 1, Head(rest)),
                       written       |-> Len(Head(rest)),
                       total_written |-> st.total_written + Len(Head(rest)) + 1,
                       subtrees_num  |-> st.subtrees_num + 1],
                      Tail(rest))

Packed(subs) ==
    PackSubtrees([subtrees_str  |-> [i \in 1..BufSize |-> "U"],
                  written       |-> -1,
                  total_written |-> 0,
                  subtrees_num  |-> 0], subs)

\* the bytes of subtrees_str that memcpy() copies and nothing has written
Unwritten(subs) ==
    LET p == Packed(subs)
    IN  {i \in 1..p.total_written : p.subtrees_str[i] = "U"}

\* what a byte never written may hold
JunkChars == {"NUL", "/"}

\* the message: offsets are counted from the end of the fixed header, data
\* is what follows the header up to the end of the file name
cfg_backup_msg(fname, subs, op, junk) ==
    LET p == Packed(subs)
    IN  [op              |-> op,
         subtrees_num    |-> p.subtrees_num,
         subtrees_offset |-> 0,
         filename_offset |-> p.total_written,
         data            |-> [i \in 1..p.total_written |->
                                 IF i \in DOMAIN junk THEN junk[i]
                                 ELSE p.subtrees_str[i]]
                             \o fname \o <<"NUL">>]

\* the statuses the database layer may answer to a BACKUP message
BackupStatus == {"OK", "TE_EBACKUP", "TE_EFAIL"}

\* cfg_backup_wrapper(filename, subtrees, op) with the status st
cfg_backup_wrapper(op, st) ==
    /\ \E junk \in [Unwritten(args) -> JunkChars] :
          msg' = cfg_backup_msg(filename, args, op, junk)
    /\ wire' = Append(wire, [op |-> op, rc |-> st])

(***************************************************************************)
(* cfg_backup_verify_and_restore().                                        *)
(***************************************************************************)
Names == {<<"f">>, <<"b", "k">>}

SubtreePool == {<<"/", "a">>, <<"/", "b", "b">>}

ArgLists == UNION {[1..n -> SubtreePool] : n \in 0..MaxSubtrees}

ClientInit ==
    /\ filename \in Names
    /\ args \in ArgLists
    /\ cpc = "verify"
    /\ crc = "OK"
    /\ wire = <<>>
    /\ msg = [op |-> "none"]
    /\ RestoreIdle
    /\ OidIdle
    /\ ReadIdle
    /\ WriteIdle

\* a faulty sequel, which trusts a restore that returned 0
AfterCallNoVerify(at, st) ==
    CASE at = "verify"   -> IF st = "OK" THEN "returned" ELSE "restore"
      [] at = "restore"  -> "returned"
      [] at = "reverify" -> "returned"

\* where cfg_backup_verify_and_restore() goes after a call returned st
AfterCall(at, st) ==
    CASE at = "verify"   -> IF st = "OK" THEN "returned" ELSE "restore"
      [] at = "restore"  -> IF st # "OK" THEN "returned" ELSE "reverify"
      [] at = "reverify" -> "returned"

\* rc = cfg_backup_verify(filename, subtrees)
Verify ==
    /\ cpc = "verify"
    /\ \E st \in BackupStatus :
          /\ cfg_backup_wrapper("CFG_BACKUP_VERIFY", st)
          /\ cpc' = AfterCall("verify", st)
          /\ crc' = st
    /\ UNCHANGED <<filename, args, restore_vars, oid_vars, read_vars, write_vars>>

\* rc = cfg_backup_restore_nohistory(filename, subtrees)
RestoreNoHistory ==
    /\ cpc = "restore"
    /\ \E st \in BackupStatus :
          /\ cfg_backup_wrapper("CFG_BACKUP_RESTORE_NOHISTORY", st)
          /\ cpc' = AfterCall("restore", st)
          /\ crc' = st
    /\ UNCHANGED <<filename, args, restore_vars, oid_vars, read_vars, write_vars>>

\* rc = cfg_backup_verify(filename, subtrees), after the restore
Reverify ==
    /\ cpc = "reverify"
    /\ \E st \in BackupStatus :
          /\ cfg_backup_wrapper("CFG_BACKUP_VERIFY", st)
          /\ cpc' = AfterCall("reverify", st)
          /\ crc' = st
    /\ UNCHANGED <<filename, args, restore_vars, oid_vars, read_vars, write_vars>>

ClientNext ==
    \/ Verify
    \/ RestoreNoHistory
    \/ Reverify

ClientSpec == ClientInit /\ [][ClientNext]_vars

(***************************************************************************)
(* cfg_backup_create_file(), root by root.                                 *)
(***************************************************************************)
cfg_obj_root == "/"

\* obj->father
ObjFather(obj) ==
    CASE obj \in {"/a/c", "/a/w"} -> "/a"
      [] obj = "/u/x"             -> "/u"
      [] obj = "/agent/x"         -> "/agent"
      [] OTHER                    -> cfg_obj_root

\* obj->son, obj->brother: the sons of an object, in the store's order
ObjOrder == <<"/a", "/a/c", "/a/w", "/agent", "/agent/x", "/b", "/u", "/u/x", "/v">>
ObjSons(obj) == SelectSeq(ObjOrder, LAMBDA o : ObjFather(o) = obj)

\* cfg_object_agent(obj): the object is /agent
cfg_object_agent(obj) == obj = "/agent"

\* the <object> entries put_object() writes
RECURSIVE put_object(_), PutObjSons(_)
put_object(obj) ==
    (IF obj # cfg_obj_root /\ ~cfg_object_agent(obj) THEN <<obj>> ELSE <<>>)
    \o PutObjSons(ObjSons(obj))
PutObjSons(sons) ==
    IF sons = <<>> THEN <<>>
    ELSE put_object(Head(sons)) \o PutObjSons(Tail(sons))

\* cfg_get_ins_by_ins_id_str(oid)
cfg_get_ins_by_ins_id_str(l, oid) == IF l[oid] # 0 THEN oid ELSE NULL

\* a faulty writer, which leaves the subtree's own root out
put_instance_sons_only(l, oid) ==
    IF cfg_get_ins_by_ins_id_str(l, oid) = NULL
    THEN [rc |-> "TE_ENOENT", out |-> <<>>]
    ELSE [rc |-> "OK", out |-> PutSons(l, LiveSons(l, oid))]

\* put_instance_by_oid(f, oid)
put_instance_by_oid(l, oid) ==
    IF cfg_get_ins_by_ins_id_str(l, oid) = NULL
    THEN [rc |-> "TE_ENOENT", out |-> <<>>]
    ELSE [rc |-> "OK", out |-> put_instance(l, cfg_get_ins_by_ins_id_str(l, oid))]

MaxRoots == 2

SubtreeLists == UNION {[1..n -> Instances] : n \in 0..MaxRoots}

WriteInit ==
    /\ wlive \in LiveStates
    /\ wsub \in SubtreeLists
    /\ wpc = "open"
    /\ wrc = "OK"
    /\ wobjs = <<>>
    /\ wout = <<>>
    /\ wnext = 1
    /\ wmark = 0
    /\ wroot = NULL
    /\ RestoreIdle
    /\ OidIdle
    /\ ClientIdle
    /\ ReadIdle

\* fopen(), the header and put_object(f, &cfg_obj_root)
Open ==
    /\ wpc = "open"
    /\ wobjs' = put_object(cfg_obj_root)
    /\ wpc' = IF wsub # <<>> THEN "subtree" ELSE "all"
    /\ UNCHANGED <<wlive, wsub, wrc, wout, wnext, wmark, wroot,
                   restore_vars, oid_vars, client_vars, read_vars>>

\* one turn of TE_VEC_FOREACH: put_instance_by_oid(f, *subtree); on an error
\* the file is closed and unlinked
PutSubtree ==
    /\ wpc = "subtree"
    /\ LET put == put_instance_by_oid(wlive, wsub[wnext])
       IN  IF put.rc # "OK"
           THEN /\ wrc' = put.rc
                /\ wpc' = "returned"
                /\ wobjs' = <<>>
                /\ wout' = <<>>
                /\ wmark' = 0
                /\ UNCHANGED <<wnext, wroot>>
           ELSE /\ wout' = wout \o put.out
                /\ wmark' = Len(wout)
                /\ wroot' = wsub[wnext]
                /\ wnext' = wnext + 1
                /\ wpc' = IF wnext = Len(wsub) THEN "close" ELSE "subtree"
                /\ UNCHANGED <<wrc, wobjs>>
    /\ UNCHANGED <<wlive, wsub, restore_vars, oid_vars, client_vars, read_vars>>

\* no subtrees: put_instance(f, &cfg_inst_root)
PutAll ==
    /\ wpc = "all"
    /\ wout' = put_instance(wlive, NULL)
    /\ wpc' = "close"
    /\ UNCHANGED <<wlive, wsub, wrc, wobjs, wnext, wmark, wroot,
                   restore_vars, oid_vars, client_vars, read_vars>>

\* the trailer, fclose() and return 0
Close ==
    /\ wpc = "close"
    /\ wpc' = "returned"
    /\ wrc' = "OK"
    /\ UNCHANGED <<wlive, wsub, wobjs, wout, wnext, wmark, wroot,
                   restore_vars, oid_vars, client_vars, read_vars>>

WriteNext ==
    \/ Open
    \/ PutSubtree
    \/ PutAll
    \/ Close

WriteSpec == WriteInit /\ [][WriteNext]_vars

(***************************************************************************)
(* cfg_backup_process_file(): register_objects(), parse_instances(), the   *)
(* initial cfg_ta_sync() and the call of restore_entries().                *)
(***************************************************************************)
MaxXml == 3
MaxBad == 3

\* an XML node: its name, its oid and value attributes, its children
Node(name, oid, value, children) ==
    [name |-> name, oid |-> oid, value |-> value, children |-> children]
Leaf(name) == Node(name, NULL, NULL, <<>>)
Depends(oid) == Node("depends", oid, NULL, <<>>)

\* the children an <object> node may have
DependsPool ==
    {<<>>,
     <<Depends("/a")>>,
     <<Depends(NULL)>>,
     <<Node("depends", "/a", NULL, <<Leaf("text")>>)>>,
     <<Leaf("other")>>,
     <<Leaf("comment"), Depends("/a"), Depends("/b")>>}

ObjectNodes == {Node("object", "/z", NULL, ch) : ch \in DependsPool}

ReadOids == {"/a:1", "/b:1", "/z:1"}

InstanceNodes ==
    {Node("instance", o, v, <<>>) : o \in ReadOids, v \in {NULL, "1"}}
    \cup {Node("instance", "/a:1", "x", <<>>),
          Node("instance", "/a:1", "1", <<Leaf("text")>>),
          Node("instance", NULL, NULL, <<>>)}

NodePool == ObjectNodes \cup InstanceNodes \cup {Leaf("comment"), Leaf("other")}

XmlDocs == UNION {[1..n -> NodePool] : n \in 0..MaxXml}

\* the live stores a document is read against
ReadLives ==
    {[i \in ReadOids |-> IF i \in S THEN 1 ELSE 0] : S \in {{}, {"/a:1"}}}

\* the object OID of an instance OID
ObjectOf(oid) ==
    CASE oid = "/z:1" -> "/z"
      [] oid = NULL   -> NULL
      [] OTHER        -> ObjOf(oid)

\* cfg_get_object(oid): the registered object of an instance OID, or NULL
cfg_get_object(objs, oid) ==
    IF ObjectOf(oid) \in objs THEN ObjectOf(oid) ELSE NULL

\* cfg_types[type].str2val(): the value of a string, or an error
str2val(str) ==
    IF str = "1" THEN [rc |-> "OK", val |-> 1] ELSE [rc |-> "TE_EINVAL", val |-> NULL]

\* the status of the next message: the bad-th message of a read is refused
MsgStatus(log, bad) == IF Len(log) + 1 = bad THEN "TE_EFAIL" ELSE "OK"

\* the status of a REGISTER message: a registered OID is refused
RegisterStatus(objs, oid, log, bad) ==
    IF oid \in objs THEN "TE_EINVAL" ELSE MsgStatus(log, bad)

\* cfg_register_dependency(node, dependant): nodes are node and its next ones
RECURSIVE cfg_register_dependency(_, _, _, _)
cfg_register_dependency(nodes, dependant, log, bad) ==
    IF nodes = <<>> THEN [rc |-> "OK", log |-> log]
    ELSE LET node == Head(nodes)
             sent == Append(log, [type |-> "CFG_ADD_DEPENDENCY",
                                  oid  |-> node.oid,
                                  of   |-> dependant,
                                  rc   |-> MsgStatus(log, bad)])
         IN  IF node.name \in {"comment", "text"}
             THEN cfg_register_dependency(Tail(nodes), dependant, log, bad)
             ELSE IF node.name # "depends" THEN [rc |-> "TE_EINVAL", log |-> log]
             ELSE IF node.oid = NULL THEN [rc |-> "TE_EINVAL", log |-> log]
             ELSE IF node.children # <<>> THEN [rc |-> "TE_EINVAL", log |-> log]
             ELSE IF MsgStatus(log, bad) # "OK"
             THEN [rc |-> MsgStatus(log, bad), log |-> sent]
             ELSE cfg_register_dependency(Tail(nodes), dependant, sent, bad)

\* register_objects(&cur, reg), from the node cur on; st holds the objects
\* registered, the messages sent and the first error of a
\* cfg_register_dependency() call
RECURSIVE register_objects(_, _, _, _, _)
register_objects(nodes, cur, flag, st, bad) ==
    IF cur > Len(nodes) THEN [st EXCEPT !.rc = "OK", !.cur = cur]
    ELSE LET node == nodes[cur]
             rst  == RegisterStatus(st.objs, node.oid, st.log, bad)
             sent == Append(st.log, [type |-> "CFG_REGISTER",
                                     oid  |-> node.oid,
                                     of   |-> NULL,
                                     rc   |-> rst])
             dep  == cfg_register_dependency(node.children, node.oid, sent, bad)
         IN  IF node.name \in {"comment", "text"}
             THEN register_objects(nodes, cur + 1, flag, st, bad)
             ELSE IF node.name # "object"
             THEN [st EXCEPT !.rc = "OK", !.cur = cur]
             ELSE IF ~flag
             THEN register_objects(nodes, cur + 1, flag, st, bad)
             ELSE IF node.oid = NULL
             THEN [st EXCEPT !.rc = "TE_EINVAL", !.cur = cur]
             ELSE IF rst # "OK"
             THEN [st EXCEPT !.rc = rst, !.cur = cur, !.log = sent]
             ELSE register_objects(nodes, cur + 1, flag,
                      [st EXCEPT !.objs = st.objs \cup {node.oid},
                                 !.log = dep.log,
                                 !.deperr = IF st.deperr = "OK" THEN dep.rc
                                            ELSE st.deperr],
                      bad)

\* a faulty lookup, which never finds a live instance
InstanceHandleInvalid(l, oid) == CFG_HANDLE_INVALID

\* cfg_db_find(oid, &tmp->handle), and CFG_HANDLE_INVALID when it fails
InstanceHandle(l, oid) ==
    IF cfg_db_find(l, oid) # CFG_HANDLE_INVALID THEN cfg_db_find(l, oid)
    ELSE CFG_HANDLE_INVALID

\* RETERR: the list built so far is freed
ParseError(err) == [rc |-> err, list |-> <<>>, freed |-> 1]

\* a faulty parser, which takes every document for an empty list
parse_instances_lenient(nodes, cur, l, objs, acc) ==
    [rc |-> "OK", list |-> acc, freed |-> 0]

\* parse_instances(cur, &list, &list_size), from the node cur on
RECURSIVE parse_instances(_, _, _, _, _)
parse_instances(nodes, cur, l, objs, acc) ==
    IF cur > Len(nodes) THEN [rc |-> "OK", list |-> acc, freed |-> 0]
    ELSE LET node == nodes[cur]
             obj  == cfg_get_object(objs, node.oid)
             tmp  == [oid    |-> node.oid,
                      handle |-> InstanceHandle(l, node.oid),
                      val    |-> IF node.value = NULL THEN NULL
                                 ELSE str2val(node.value).val]
         IN  IF node.name \in {"comment", "text"}
             THEN parse_instances(nodes, cur + 1, l, objs, acc)
             ELSE IF node.name # "instance" THEN ParseError("TE_EINVAL")
             ELSE IF node.children # <<>> \/ node.oid = NULL
             THEN ParseError("TE_EINVAL")
             ELSE IF obj = NULL THEN ParseError("TE_EINVAL")
             ELSE IF Type(obj) # "CVT_NONE"
             THEN IF node.value = NULL THEN ParseError("TE_ENOENT")
                  ELSE IF str2val(node.value).rc # "OK"
                  THEN ParseError(str2val(node.value).rc)
                  ELSE parse_instances(nodes, cur + 1, l, objs, Append(acc, tmp))
             ELSE IF node.value # NULL THEN ParseError("TE_EINVAL")
             ELSE parse_instances(nodes, cur + 1, l, objs, Append(acc, tmp))

ReadInit ==
    /\ xml \in XmlDocs
    /\ reg \in BOOLEAN
    /\ rlive \in ReadLives
    /\ robjs = Objects
    /\ rcur = 1
    /\ rpc = "register"
    /\ rrc = "OK"
    /\ rlist = <<>>
    /\ rlog = <<>>
    /\ deperr = "OK"
    /\ rexit = "none"
    /\ rfreed = 0
    /\ RestoreIdle
    /\ OidIdle
    /\ ClientIdle
    /\ WriteIdle

\* cur == NULL: return 0; else register_objects(&cur, !restore)
RegisterObjects ==
    /\ rpc = "register"
    /\ \E bad \in 0..MaxBad :
          LET r == register_objects(xml, 1, reg,
                       [rc |-> "OK", cur |-> 1, objs |-> robjs, log |-> <<>>,
                        deperr |-> "OK"], bad)
          IN  IF xml = <<>>
              THEN /\ rpc' = "returned"
                   /\ rexit' = "empty"
                   /\ UNCHANGED <<rrc, rcur, robjs, rlog, deperr>>
              ELSE /\ rrc' = r.rc
                   /\ rcur' = r.cur
                   /\ robjs' = r.objs
                   /\ rlog' = r.log
                   /\ deperr' = r.deperr
                   /\ rpc' = IF r.rc # "OK" THEN "returned" ELSE "parse"
                   /\ rexit' = IF r.rc # "OK" THEN "register" ELSE rexit
    /\ UNCHANGED <<xml, reg, rlive, rlist, rfreed,
                   restore_vars, oid_vars, client_vars, write_vars>>

\* parse_instances(cur, &list, &list_size)
ParseInstances ==
    /\ rpc = "parse"
    /\ LET r == parse_instances(xml, rcur, rlive, robjs, <<>>)
       IN  /\ rrc' = r.rc
           /\ rlist' = r.list
           /\ rfreed' = r.freed
           /\ rpc' = IF r.rc # "OK" THEN "returned"
                     ELSE IF reg THEN "sync" ELSE "restore"
           /\ rexit' = IF r.rc # "OK" THEN "parse" ELSE rexit
    /\ UNCHANGED <<xml, reg, rlive, robjs, rcur, rlog, deperr,
                   restore_vars, oid_vars, client_vars, write_vars>>

\* if (!restore) cfg_ta_sync("/:", true)
InitialSync ==
    /\ rpc = "sync"
    /\ \E st \in {"OK", "TE_EFAIL"} :
          /\ rrc' = st
          /\ rpc' = IF st # "OK" THEN "returned" ELSE "restore"
          /\ rexit' = IF st # "OK" THEN "sync" ELSE rexit
    /\ UNCHANGED <<xml, reg, rlive, robjs, rcur, rlist, rlog, deperr, rfreed,
                   restore_vars, oid_vars, client_vars, write_vars>>

\* the places restore_entries() returns from
RestoreExits ==
    {"fill_children", "remove_excessive", "restore_entry", "commit",
     "need_retry", "break", "end"}

\* return restore_entries(list, list_size, subtrees)
RestoreEntries ==
    /\ rpc = "restore"
    /\ \E where \in RestoreExits :
          /\ rrc' = IF where \in {"end", "break"} THEN "OK" ELSE "TE_EFAIL"
          /\ rfreed' = rfreed + Freed(where)
    /\ rpc' = "returned"
    /\ rexit' = "restore"
    /\ UNCHANGED <<xml, reg, rlive, robjs, rcur, rlist, rlog, deperr,
                   restore_vars, oid_vars, client_vars, write_vars>>

ReadNext ==
    \/ RegisterObjects
    \/ ParseInstances
    \/ InitialSync
    \/ RestoreEntries

ReadSpec == ReadInit /\ [][ReadNext]_vars

(***************************************************************************)
(* Properties.                                                             *)
(***************************************************************************)
Done == pc = "done"
Success == pc = "done" /\ rc = "OK"

AddSet(k) == msgs[k].kind \in {"ADD", "SET"}

\* the strict ancestors of an instance
RECURSIVE Ancestors(_)
Ancestors(i) ==
    IF ParentOf(i) = NULL THEN {} ELSE {ParentOf(i)} \cup Ancestors(ParentOf(i))

\* the objects an object depends on, directly or not
RECURSIVE DependsOnAll(_)
DependsOnAll(obj) == DependsOn(obj) \cup UNION {DependsOnAll(o) : o \in DependsOn(obj)}

\* C1: a restore performs at most 10 outer passes and at most 10 calls of
\* cfg_ta_sync("/:"), whatever the store and cfg_ta_sync() do.
C1_AtMostTenPasses == passes <= 10 /\ nsync <= 10

\* C2: whenever a restore returns success, every descriptor of the
\* desired-state list has added = true.
C2_SuccessMeansAllAdded == Success => \A k \in 1..Len(list) : list[k] \in added

\* C3: a successful restore of a document written by cfg_backup_create_file()
\* leaves a live store the document verifies against: every recorded instance
\* is live with the recorded value, no other non-volatile read-create instance
\* is left.
C3_RoundTrip == (Success /\ doc \in BackupsOf(subtrees)) => Matches(doc, subtrees, live)

\* C4: when the live store matches the document at the start, the restore
\* issues no ADD, SET, DEL or COMMIT, calls no cfg_ta_sync(), runs exactly one
\* outer pass and returns OK.
C4_Idempotent ==
    matched => /\ msgs = <<>> /\ dels = <<>> /\ nsync = 0
               /\ Done => (rc = "OK" /\ passes = 1)

\* C5: in a restore that returns success the ADD and SET messages, taken over
\* all walks, outer passes and unit recursion, never decrease in ordinal.
C5_AddSetOrdinalsNonDecreasing ==
    Success => \A j, k \in 1..Len(msgs) :
                  (j < k /\ AddSet(j) /\ AddSet(k)) => Ord(msgs[j].oid) <= Ord(msgs[k].oid)

\* C5 as amended: the ADD and SET messages one walk of the list issues for the
\* descriptors the walk itself visits never decrease in ordinal.
C5_WalkOrdinalsNonDecreasing ==
    \A j, k \in 1..Len(msgs) :
        (/\ j < k /\ AddSet(j) /\ AddSet(k)
         /\ msgs[j].top /\ msgs[k].top
         /\ msgs[j].walk = msgs[k].walk) => Ord(msgs[j].oid) <= Ord(msgs[k].oid)

\* C5 witness: a successful restore in which one walk sent an ADD or SET for
\* two descriptors of different ordinals.
C5_Witness ==
    /\ Success
    /\ \E j, k \in 1..Len(msgs) :
          /\ j < k /\ AddSet(j) /\ AddSet(k) /\ msgs[j].top /\ msgs[k].top
          /\ msgs[j].walk = msgs[k].walk
          /\ Ord(msgs[j].oid) < Ord(msgs[k].oid)

\* C6: within one delete phase the ordinals of the successively deleted
\* instances never increase, children deleted by delete_with_children()
\* included.
C6_DelOrdinalsNeverIncrease ==
    \A j, k \in 1..Len(dels) : j < k => Ord(dels[j].oid) >= Ord(dels[k].oid)

\* C6, its other wording: no DEL for an instance of a class precedes, in one
\* delete phase, a DEL for an instance of a class that depends on it.
C6_DependantsDeletedFirst ==
    \A j, k \in 1..Len(dels) :
        j < k => ObjOf(dels[j].oid) \notin DependsOnAll(ObjOf(dels[k].oid))

\* C6 as amended: within one delete phase the ordinals of the candidates
\* remove_excessive() hands to delete_with_children() never increase.
C6_CandidateOrdinalsNeverIncrease ==
    \A j, k \in 1..Len(dels) :
        (j < k /\ dels[j].top /\ dels[k].top) => Ord(dels[j].oid) >= Ord(dels[k].oid)

\* C6 witness: a delete phase that deleted a candidate, then a child, then a
\* candidate of a lower ordinal.
C6_Witness ==
    \E j, k \in 1..Len(dels) :
        /\ j < k /\ dels[j].top /\ dels[k].top
        /\ Ord(dels[j].oid) > Ord(dels[k].oid)
        /\ \E m \in 1..Len(dels) : ~dels[m].top

\* C7: no DEL is issued for a volatile instance, nor for an instance whose
\* object is not read-create.
C7_NoDelOfVolatileOrFixed ==
    \A k \in 1..Len(dels) :
        /\ ~cfg_instance_volatile(dels[k].oid)
        /\ Access(ObjOf(dels[k].oid)) = "CFG_READ_CREATE"

\* C7 witness: the planner is about to delete /a:1, having passed over its
\* read-write son /a:1/w:1 and over the volatile candidate /v:1.
C7_Witness ==
    /\ pc = "remove_excessive"
    /\ plan = <<"/a:1">>
    /\ live["/a:1/w:1"] # 0
    /\ live["/v:1"] # 0
    /\ "/v:1" \notin Range(sorted) \cup Range(list)
    /\ sorted = <<>>

\* C8: every DEL targets a live instance that has no desired-state entry and
\* lies in the requested subtrees, also when it is a child of a deleted one.
C8_OnlyExcessiveDeleted ==
    \A k \in 1..Len(dels) :
        /\ dels[k].present
        /\ dels[k].oid \notin Range(list)
        /\ check_oid_contains_subtrees(subtrees, dels[k].oid)

\* C8 as amended: every DEL targets a live instance in the requested subtrees
\* that has no desired-state entry, or that lies below such an instance.
C8_ExcessiveOrBelowExcessive ==
    \A k \in 1..Len(dels) :
        /\ dels[k].present
        /\ check_oid_contains_subtrees(subtrees, dels[k].oid)
        /\ dels[k].top => dels[k].oid \notin Range(list)
        /\ ~dels[k].top => \E p \in Ancestors(dels[k].oid) : p \notin Range(list)

\* C8 witness: a delete phase deleted a son that has a desired-state entry,
\* then its father, which has none.
C8_Witness ==
    \E j, k \in 1..Len(dels) :
        /\ j < k
        /\ ~dels[j].top /\ dels[j].oid \in Range(list) /\ dels[j].rc = "OK"
        /\ dels[k].top /\ dels[k].oid \in Ancestors(dels[j].oid) /\ dels[k].rc = "OK"

\* the unit root an instance of a unit subtree is restored under
UnitRoot(i) ==
    IF Unit(ObjOf(i)) THEN i
    ELSE CHOOSE p \in Ancestors(i) : Unit(ObjOf(p))

InUnit(i) == Unit(ObjOf(i)) \/ UnitPart(ObjOf(i))

\* C9: every ADD and SET for an instance of a unit subtree is local, and the
\* changes of one restore_entry() call are followed by exactly one COMMIT for
\* the unit root, after the last ADD or SET of the call.
C9_UnitCommit ==
    /\ \A k \in 1..Len(msgs) : (AddSet(k) /\ InUnit(msgs[k].oid)) => msgs[k].local
    /\ \A c \in 1..ncall :
          (/\ c < ncall \/ pc # "restore_entry"
           /\ \E k \in 1..Len(msgs) :
                 msgs[k].call = c /\ AddSet(k) /\ InUnit(msgs[k].oid) /\ msgs[k].rc = "OK")
          => /\ Cardinality({k \in 1..Len(msgs) :
                                msgs[k].call = c /\ msgs[k].kind = "COMMIT"}) = 1
             /\ \A j, k \in 1..Len(msgs) :
                   (/\ msgs[j].call = c /\ AddSet(j)
                    /\ msgs[k].call = c /\ msgs[k].kind = "COMMIT")
                   => j < k /\ msgs[k].oid = UnitRoot(msgs[j].oid)

\* C10: the restore returns TE_ENOENT exactly when an inner loop ends with
\* need_retry still true.
C10_EnoentOnlyFromRetry == Done => (rc = "TE_ENOENT" <=> exit = "need_retry")

\* C10 as amended: a TE_ENOENT of an ADD or SET only sets need_retry and the
\* walk goes on; an inner loop that ends with need_retry true makes the restore
\* return TE_ENOENT, one that ends with it false does not; the restore returns
\* TE_ENOENT otherwise only with the TE_ENOENT of a DEL or of a COMMIT.
C10_EnoentDrivesRetry ==
    /\ [][(/\ Len(msgs') > Len(msgs)
           /\ msgs'[Len(msgs')].kind \in {"ADD", "SET"}
           /\ msgs'[Len(msgs')].rc = "TE_ENOENT")
          => (pc' = "restore_entry" /\ need_retry' /\ todo' = Tail(todo))]_vars
    /\ [](exit = "need_retry" => (rc = "TE_ENOENT" /\ need_retry /\ ~change_made))
    /\ [](pc = "sync" => ~need_retry)
    /\ []((Done /\ rc = "TE_ENOENT" /\ exit # "need_retry")
            => \/ exit = "remove_excessive" /\ dels[Len(dels)].rc = "TE_ENOENT"
               \/ exit = "commit" /\ msgs[Len(msgs)].kind = "COMMIT"
                                  /\ msgs[Len(msgs)].rc = "TE_ENOENT")

\* C10 witness: an ADD or SET returned TE_ENOENT, the walk went on to send
\* another message, and the restore returned TE_ENOENT at the end of the
\* inner loop.
C10_Witness ==
    /\ Done /\ rc = "TE_ENOENT" /\ exit = "need_retry"
    /\ \E j, k \in 1..Len(msgs) :
          /\ j < k /\ AddSet(j) /\ msgs[j].rc = "TE_ENOENT"
          /\ msgs[j].walk = msgs[k].walk

\* C11: when an ADD or a SET returns a status other than 0 and TE_ENOENT, the
\* restore returns that status, and no ADD, SET, DEL, COMMIT or cfg_ta_sync()
\* follows the failing message.
C11_FailureAborts ==
    /\ [](\A k \in 1..Len(msgs) :
            (AddSet(k) /\ msgs[k].rc \notin {"OK", "TE_ENOENT"})
            => /\ k = Len(msgs)
               /\ Done /\ rc = msgs[k].rc /\ exit = "restore_entry")
    /\ [][pc # "done"]_vars

\* C11 witness: the restore returned the TE_EFAIL of an ADD or SET that was
\* not its first message.
C11_Witness ==
    /\ Done /\ rc = "TE_EFAIL"
    /\ Len(msgs) > 1
    /\ AddSet(Len(msgs)) /\ msgs[Len(msgs)].rc = "TE_EFAIL"

\* C12: a nonzero status of a DEL, TE_ENOENT included, ends the delete phase
\* at once and is the status of the restore, which sends no ADD, SET or COMMIT
\* in that pass.
C12_DelFailureReturned ==
    /\ [](\A k \in 1..Len(dels) :
            dels[k].rc # "OK"
            => /\ k = Len(dels)
               /\ Done /\ rc = dels[k].rc /\ exit = "remove_excessive"
               /\ \A m \in 1..Len(msgs) : msgs[m].pass < passes)
    /\ [][pc # "done"]_vars

\* C12 witness: the second DEL of a delete phase returned TE_ENOENT and the
\* restore returned it.
C12_Witness ==
    /\ Done /\ rc = "TE_ENOENT" /\ exit = "remove_excessive"
    /\ Len(dels) > 1
    /\ dels[Len(dels)].rc = "TE_ENOENT"

\* C14: on every return path of restore_entries() the desired-state list is
\* freed exactly once.
C14_ListFreedOnce == Done => Freed(exit) = 1

\* b begins with a and goes on across a "/" boundary, or ends there
SegmentPrefix(a, b) ==
    /\ Len(Chars(a)) <= Len(Chars(b))
    /\ SubSeq(Chars(b), 1, Len(Chars(a))) = Chars(a)
    /\ At(Chars(b), Len(Chars(a))) \in {"NUL", "/"}

\* b begins with a and goes on with a character other than "/"
SiblingPrefix(a, b) ==
    /\ Len(Chars(a)) < Len(Chars(b))
    /\ SubSeq(Chars(b), 1, Len(Chars(a))) = Chars(a)
    /\ At(Chars(b), Len(Chars(a))) # "/"

\* C15: alpha_qsort_predicate() is a total order of OID strings: 0 only for
\* equal strings, antisymmetric, transitive; an OID comes before the OIDs that
\* extend it across a "/", and those come before the OIDs that extend it with
\* another character.
C15_ChildFirstOrder ==
    verdict.op = "alpha" =>
        LET x == oids[1]
            y == oids[2]
            z == oids[3]
        IN  /\ (verdict.xy = 0) <=> (x = y)
            /\ (verdict.xy < 0) <=> (verdict.yx > 0)
            /\ (verdict.xy <= 0 /\ verdict.yz <= 0) => verdict.xz <= 0
            /\ (SegmentPrefix(x, y) /\ x # y) => verdict.xy < 0
            /\ (SegmentPrefix(x, y) /\ x # y /\ SiblingPrefix(x, z)) => verdict.yz < 0

\* C15 witness: the comparator has ordered an OID, its child and a sibling
\* whose name extends the OID's with "-".
C15_Witness ==
    /\ verdict.op = "alpha"
    /\ oids = <<"/a:1", "/a:1/b:2", "/a:1-d">>
    /\ verdict.xy < 0 /\ verdict.yz < 0

\* C16: check_oid_contains_subtrees() is true iff the filter is empty or one
\* of its subtrees is a prefix of the OID that ends at a "/" or at the end of
\* the OID.
C16_SegmentContainment ==
    verdict.op = "contains" =>
        (verdict.is <=> (filter = <<>> \/
                         \E k \in 1..Len(filter) : SegmentPrefix(filter[k], oids[1])))

Ops(k) == wire[k].op

\* C13: cfg_backup_verify_and_restore() sends VERIFY; on OK it returns OK and
\* sends nothing more; otherwise it sends one RESTORE_NOHISTORY; a failed
\* restore is returned with no second VERIFY; after a successful one exactly
\* one more VERIFY is sent and its status is the result.
C13_VerifyRestoreVerify ==
    /\ \A k \in 1..Len(wire) :
          Ops(k) = <<"CFG_BACKUP_VERIFY", "CFG_BACKUP_RESTORE_NOHISTORY",
                     "CFG_BACKUP_VERIFY">>[k]
    /\ Len(wire) <= 3
    /\ cpc = "returned" =>
          /\ Len(wire) >= 1
          /\ crc = wire[Len(wire)].rc
          /\ wire[1].rc = "OK" => Len(wire) = 1
          /\ wire[1].rc # "OK" => Len(wire) >= 2
          /\ (Len(wire) >= 2 /\ wire[2].rc # "OK") => Len(wire) = 2
          /\ (Len(wire) >= 2 /\ wire[2].rc = "OK") => Len(wire) = 3
          /\ crc = "OK" => Ops(Len(wire)) = "CFG_BACKUP_VERIFY"

\* C13 witness: the first VERIFY failed, the restore succeeded, the second
\* VERIFY failed and its status was returned.
C13_Witness ==
    /\ cpc = "returned"
    /\ Len(wire) = 3
    /\ wire[2].rc = "OK"
    /\ crc = "TE_EBACKUP"

\* the C string at an offset of the data of a message
CString(data, off) ==
    LET ends == {i \in (off + 1)..Len(data) : data[i] = "NUL"}
    IN  IF ends = {} THEN SubSeq(data, off + 1, Len(data))
        ELSE SubSeq(data, off + 1, (CHOOSE i \in ends : \A j \in ends : i <= j) - 1)

\* the n C strings that follow one another from an offset on
RECURSIVE CStrings(_, _, _)
CStrings(data, off, n) ==
    IF n = 0 THEN <<>>
    ELSE <<CString(data, off)>> \o CStrings(data, off + Len(CString(data, off)) + 1, n - 1)

\* C18: a BACKUP message built by cfg_backup_wrapper() decodes to the file
\* name and the subtrees passed in, in input order, whatever their number.
C18_MessageDecodes ==
    msg.op # "none" =>
        /\ msg.op = wire[Len(wire)].op
        /\ msg.subtrees_num = Len(args)
        /\ CStrings(msg.data, msg.subtrees_offset, msg.subtrees_num) = args
        /\ CString(msg.data, msg.filename_offset) = filename


\* the instances put_instance() leaves out
Left(i) == cfg_inst_agent(i) \/ cfg_instance_volatile(i)

\* the instance is an agent root or lies below one
RECURSIVE InAgentSubtree(_)
InAgentSubtree(i) == i # NULL /\ (cfg_inst_agent(i) \/ InAgentSubtree(ParentOf(i)))

\* the live instances reachable from the roots written
Reachable ==
    IF wsub = <<>> THEN {i \in Instances : wlive[i] # 0}
    ELSE UNION {{wsub[k]} \cup Below(wlive, wsub[k]) : k \in 1..Len(wsub)}

\* C17: a document written holds no <instance> for the root instance, a
\* volatile instance or an instance of the agent subtree, and no <object> for
\* the root object; every other instance reachable from the roots is written
\* exactly once, a parent before its children.
C17_EachOnceParentFirst ==
    (wpc = "returned" /\ wrc = "OK") =>
        /\ \A k \in 1..Len(wout) :
              /\ wout[k] # NULL
              /\ ~cfg_instance_volatile(wout[k])
              /\ ~InAgentSubtree(wout[k])
        /\ cfg_obj_root \notin Range(wobjs)
        /\ \A i \in Reachable :
              (~cfg_instance_volatile(i) /\ ~InAgentSubtree(i)) =>
                  Cardinality({k \in 1..Len(wout) : wout[k] = i}) = 1
        /\ \A k \in 1..Len(wout) :
              ParentOf(wout[k]) \in Range(wout) =>
                  \E j \in 1..(k - 1) : wout[j] = ParentOf(wout[k])

\* what the root written last wrote
Segment == SubSeq(wout, wmark + 1, Len(wout))

\* what that root reaches
SegmentReach ==
    IF wroot = NULL THEN {i \in Instances : wlive[i] # 0}
    ELSE {wroot} \cup Below(wlive, wroot)

\* C17, amended: no <object> is written for the root object, and each root
\* written (each subtree, or the root instance) writes no <instance> for the
\* root instance, a volatile instance or an agent root /agent:<name>, and
\* writes every other instance it reaches exactly once, a parent before its
\* children; the instances below an agent root are written.
C17_EachRootOnceParentFirst ==
    (wrc = "OK" /\ (wnext > 1 \/ wpc \in {"close", "returned"})) =>
        /\ cfg_obj_root \notin Range(wobjs)
        /\ \A k \in 1..Len(Segment) :
              /\ Segment[k] # NULL
              /\ Segment[k] \in SegmentReach
              /\ ~Left(Segment[k])
        /\ \A i \in SegmentReach :
              ~Left(i) => Cardinality({k \in 1..Len(Segment) : Segment[k] = i}) = 1
        /\ \A k \in 1..Len(Segment) :
              ParentOf(Segment[k]) \in Range(Segment) =>
                  \E j \in 1..(k - 1) : Segment[j] = ParentOf(Segment[k])

\* C17 witness: a document of the whole store, which holds a volatile
\* instance and an agent with an instance below it, has been written.
C17_Witness ==
    /\ wpc = "returned"
    /\ wrc = "OK"
    /\ wsub = <<>>
    /\ wlive["/v:1"] # 0
    /\ wlive["/agent:A"] # 0
    /\ "/agent:A/x:1" \in Range(wout)


\* the nodes parse_instances() was given
Parsed == SubSeq(xml, rcur, Len(xml))

\* parse_instances() has returned
ParseDone == rpc \in {"sync", "restore"} \/ rexit \in {"parse", "sync", "restore"}

Ignored(n) == n.name \in {"comment", "text"}

\* an <instance> with an oid of a registered object and no children
Plain(n) ==
    /\ n.name = "instance"
    /\ n.oid # NULL
    /\ n.children = <<>>
    /\ ObjectOf(n.oid) \in robjs

\* an <instance> that lacks the value its type calls for
ValueMissing(n) ==
    Plain(n) /\ Type(ObjectOf(n.oid)) # "CVT_NONE" /\ n.value = NULL

\* a node the claim calls INVAL
Invalid(n) ==
    /\ ~Ignored(n)
    /\ \/ n.name # "instance"
       \/ n.children # <<>>
       \/ n.oid = NULL
       \/ ObjectOf(n.oid) \notin robjs
       \/ Type(ObjectOf(n.oid)) = "CVT_NONE" /\ n.value # NULL

\* a node that neither is nor hides an error
Sound(n) ==
    \/ Ignored(n)
    \/ /\ Plain(n)
       /\ IF Type(ObjectOf(n.oid)) = "CVT_NONE" THEN n.value = NULL
          ELSE n.value = "1"

\* the first node that is not sound, if any
FirstUnsound ==
    {k \in 1..Len(Parsed) : ~Sound(Parsed[k]) /\ \A j \in 1..(k - 1) : Sound(Parsed[j])}

InstancesOf(nodes) == SelectSeq(nodes, LAMBDA n : n.name = "instance")

\* C19: parse_instances() fails with ENOENT on an <instance> without the
\* value its type needs and with INVAL on a value where the type is none, an
\* unregistered object, children, no oid, or a foreign node; when it succeeds
\* the list holds one descriptor per <instance> in document order, each with
\* the handle of the live instance of that OID, or the invalid handle.
C19_ParseErrorsAndList ==
    ParseDone =>
        /\ \A k \in FirstUnsound :
              /\ ValueMissing(Parsed[k]) => (rexit = "parse" /\ rrc = "TE_ENOENT")
              /\ Invalid(Parsed[k]) => (rexit = "parse" /\ rrc = "TE_EINVAL")
        /\ FirstUnsound = {} =>
              /\ rexit # "parse"
              /\ Len(rlist) = Len(InstancesOf(Parsed))
              /\ \A k \in 1..Len(rlist) :
                    /\ rlist[k].oid = InstancesOf(Parsed)[k].oid
                    /\ rlist[k].handle = IF rlive[rlist[k].oid] # 0
                                         THEN rlist[k].oid
                                         ELSE CFG_HANDLE_INVALID

\* C19 witness: a list of two descriptors was built, the first of a live
\* instance and the second of one that is not live.
C19_Witness ==
    /\ rpc = "restore"
    /\ Len(rlist) = 2
    /\ rlist[1].handle # CFG_HANDLE_INVALID
    /\ rlist[2].handle = CFG_HANDLE_INVALID

\* C20: with registration on, a faulty <depends> (children, no oid, another
\* tag) or a refused ADD_DEPENDENCY makes the read fail with that error.
C20_DependencyErrorFailsRead ==
    (reg /\ rpc = "returned" /\ deperr # "OK") =>
        (rexit = "register" /\ rrc = deperr)

\* C21: a document without <instance> entries, whatever other nodes the
\* <backup> element has, is restored: restore_entries() runs on the empty
\* list and deletes the live instance /a:1.
C21_EmptyBackupRestored ==
    (/\ rpc = "returned"
     /\ rrc = "OK"
     /\ InstancesOf(xml) = <<>>
     /\ rlive["/a:1"] # 0) => rexit = "restore"

\* in the current outer pass a DEL, ADD or SET was issued for an instance
\* whose object has dependants
TouchedDependants ==
    \/ \E k \in 1..Len(dels) : HasDependants(ObjOf(dels[k].oid))
    \/ \E k \in 1..Len(msgs) :
          /\ msgs[k].pass = passes
          /\ AddSet(k)
          /\ HasDependants(ObjOf(msgs[k].oid))

\* C22: cfg_ta_sync("/:") is called at the end of an outer pass iff the pass
\* issued a DEL, ADD or SET for an instance whose object has dependants, and
\* another outer pass runs iff it was called: every pass but the last is
\* followed by a sync, the last one is not.
C22_SyncIffAnotherPass ==
    /\ pc = "sync" => (deps_might_fire <=> TouchedDependants)
    /\ pc \in {"remove_excessive", "walk", "restore_entry", "sync"} =>
          passes = nsync + 1
    /\ (Done /\ exit \in {"end", "break"}) => passes = nsync + 1

\* C22, amended: cfg_ta_sync("/:") is called at the end of an outer pass iff
\* the pass issued a DEL, ADD or SET for an instance whose object has
\* dependants, and another outer pass runs iff it was called and the
\* iteration limit was not reached: the pass that reaches the limit is the
\* last one whether or not it called cfg_ta_sync().
C22_SyncIffAnotherPassOrLimit ==
    /\ [](pc = "sync" => (deps_might_fire <=> TouchedDependants))
    /\ [][pc = "sync" => ((nsync' = nsync + 1) <=> TouchedDependants)]_vars
    /\ [](pc \in {"remove_excessive", "walk", "restore_entry", "sync"} =>
             passes = nsync + 1)
    /\ []((Done /\ exit = "end") => passes = nsync + 1)
    /\ []((Done /\ exit = "break") =>
             (n_iterations > LoopLimit /\ passes \in {nsync, nsync + 1}))

\* C22 witness: a successful restore whose only message is a SET on an
\* instance of an object with dependants called cfg_ta_sync() once and ran
\* two outer passes.
C22_Witness ==
    /\ Success
    /\ Len(msgs) = 1
    /\ msgs[1].kind = "SET"
    /\ msgs[1].rc = "OK"
    /\ HasDependants(ObjOf(msgs[1].oid))
    /\ nsync = 1
    /\ passes = 2

\* add_or_set() is about to run on the descriptor d
AtAddOrSet(d) == pc = "restore_entry" /\ todo # <<>> /\ Head(todo) = d

\* the step sent exactly one message, of the kind given, for the descriptor d
SentOne(kind, d) ==
    /\ Len(msgs') = Len(msgs) + 1
    /\ SubSeq(msgs', 1, Len(msgs)) = msgs
    /\ msgs'[Len(msgs')].kind = kind
    /\ msgs'[Len(msgs')].oid = d

\* C23: add_or_set() sends nothing for an agent root and returns success;
\* sends nothing and leaves change_made alone for a live instance whose type
\* is none or whose value equals the desired one; sends one SET with the
\* live handle for a live instance of another value; sends one ADD for an
\* instance that is not live; sets change_made only when the message sent
\* returned 0.
C23_AddOrSetDecision ==
    [][\A d \in Instances : AtAddOrSet(d) =>
          /\ cfg_inst_agent(d) =>
                (msgs' = msgs /\ change_made_aux' = change_made_aux /\ d \in added')
          /\ (/\ ~cfg_inst_agent(d)
              /\ live[d] # 0
              /\ \/ Type(ObjOf(d)) \in {"CVT_NONE", "CVT_UNSPECIFIED"}
                 \/ live[d] = DocVal(d)) =>
                (msgs' = msgs /\ change_made_aux' = change_made_aux /\ live' = live)
          /\ (/\ ~cfg_inst_agent(d)
              /\ live[d] # 0
              /\ Type(ObjOf(d)) \notin {"CVT_NONE", "CVT_UNSPECIFIED"}
              /\ live[d] # DocVal(d)) =>
                (SentOne("SET", d) /\ handle'[d] = d)
          /\ (~cfg_inst_agent(d) /\ live[d] = 0) => SentOne("ADD", d)
          /\ (change_made_aux' # change_made_aux) =>
                (/\ Len(msgs') = Len(msgs) + 1
                 /\ msgs'[Len(msgs')].rc = "OK"
                 /\ live'[d] = DocVal(d))
          /\ (Len(msgs') = Len(msgs) + 1 /\ msgs'[Len(msgs')].rc = "OK") =>
                change_made_aux'
      ]_vars

\* C23 witness: a restore sent a SET for a live instance of another value
\* and an ADD for an instance that was not live, and both returned 0.
C23_Witness ==
    /\ Success
    /\ Len(msgs) = 2
    /\ {msgs[1].kind, msgs[2].kind} = {"SET", "ADD"}
    /\ msgs[1].rc = "OK"
    /\ msgs[2].rc = "OK"

\* the c-th call of restore_entry() has returned
CallOver(c) == c < ncall \/ pc # "restore_entry"

\* C24: a call of restore_entry() issues a COMMIT iff the object of its
\* instance is a unit and an ADD or SET of the call (all of them local, for
\* the unit root and its subtree) returned success.
C24_CommitIffUnitChanged ==
    \A c \in 1..ncall : CallOver(c) =>
        ((\E k \in 1..Len(msgs) : msgs[k].kind = "COMMIT" /\ msgs[k].call = c)
         <=> (\E k \in 1..Len(msgs) :
                 /\ AddSet(k)
                 /\ msgs[k].call = c
                 /\ msgs[k].local
                 /\ msgs[k].rc = "OK"))

\* C25: within a call of restore_entry() on a unit root, no ADD or SET is
\* issued for an instance of the subtree once the ADD or SET of the root
\* itself has returned ENOENT.
C25_ChildrenOnlyAfterRoot ==
    \A k \in 1..Len(msgs) :
        (AddSet(k) /\ msgs[k].local /\ ~msgs[k].top) =>
            ~\E j \in 1..(k - 1) :
                /\ AddSet(j)
                /\ msgs[j].call = msgs[k].call
                /\ msgs[j].top
                /\ msgs[j].rc = "TE_ENOENT"


\* the instance a DEL message is sent for in this step
DelSent(d) ==
    /\ Len(dels') = Len(dels) + 1
    /\ dels'[Len(dels')].oid = d

\* C26 (as stated): delete_with_children() deletes in post-order, so that no
\* DEL message is ever sent for an instance which still has a live child.
C26_NoDelAboveLiveChild ==
    [][\A d \in Instances : DelSent(d) =>
          \A s \in Instances : ParentOf(s) = d => live[s] = 0]_vars

\* C26 (amended): delete_with_children() deletes in post-order, so that when
\* a DEL message is sent for an instance every live child it still has is
\* volatile or not read-create: such sons are skipped, not deleted.
C26_NoDelAboveDeletableChild ==
    [][\A d \in Instances : DelSent(d) =>
          \A s \in Instances : ParentOf(s) = d =>
              \/ live[s] = 0
              \/ cfg_instance_volatile(s)
              \/ Access(ObjOf(s)) # "CFG_READ_CREATE"]_vars

\* a son and then its father were deleted, by one delete_with_children()
C26_Witness ==
    \E j, k \in 1..Len(dels) :
        /\ k = j + 1
        /\ ParentOf(dels[j].oid) = dels[k].oid
        /\ dels[j].rc = "OK"
        /\ dels[k].rc = "OK"
        /\ dels[k].top

\* the place of a descriptor in a list
Place(l, d) == CHOOSE j \in 1..Len(l) : l[j] = d

\* C27: topo_sort_instances() is stable: two instances whose objects have
\* equal ordinals keep, in the sorted list, the order they had in the input.
C27_SortStable ==
    verdict.op = "sort" =>
        \A j, k \in 1..Len(oids) :
            (j < k /\ Ord(oids[j]) = Ord(oids[k])) =>
                Place(verdict.out, oids[j]) < Place(verdict.out, oids[k])

\* C28: topo_sort_instances() returns a permutation of its input, each
\* descriptor exactly once, with the object ordinals non-decreasing from the
\* head to the tail.
C28_SortedPermutation ==
    verdict.op = "sort" =>
        /\ Len(verdict.out) = Len(oids)
        /\ Range(verdict.out) = Range(oids)
        /\ \A j, k \in 1..Len(verdict.out) : j # k => verdict.out[j] # verdict.out[k]
        /\ \A j \in 1..(Len(verdict.out) - 1) :
              Ord(verdict.out[j]) <= Ord(verdict.out[j + 1])

\* a list of four, out of order, was sorted
C28_Witness ==
    /\ verdict.op = "sort"
    /\ Len(oids) = 4
    /\ \E j \in 1..3 : Ord(oids[j]) > Ord(oids[j + 1])
    /\ \E j \in 1..3 : Ord(verdict.out[j]) < Ord(verdict.out[j + 1])

\* p is the immediate parent of d: the OID of d is the OID of p and one more
\* segment
ImmediateParent(p, d) ==
    /\ Len(Chars(p)) < Len(Chars(d))
    /\ SubSeq(Chars(d), 1, Len(Chars(p))) = Chars(p)
    /\ Chars(d)[Len(Chars(p)) + 1] = "/"
    /\ Level(d) = Level(p) + 1

\* the son list of a descriptor: from its son along the brothers
RECURSIVE SonList(_, _)
SonList(f, s) == IF s = NULL THEN <<>> ELSE <<s>> \o SonList(f, f.brother[s])

\* fill_children() returned 0
Filled == verdict.op = "fill" /\ verdict.rc = "OK"

\* C29: after fill_children() succeeds the father of an instance is its
\* immediate parent by OID segments, the instance is once in the son list of
\* its father, and an instance whose immediate parent is in the list has it
\* as father.
C29_FatherIsImmediateParent ==
    Filled =>
        \A d \in Range(oids) :
            /\ verdict.fam.father[d] # NULL =>
                  /\ ImmediateParent(verdict.fam.father[d], d)
                  /\ Cardinality({j \in 1..Len(SonList(verdict.fam,
                                      verdict.fam.son[verdict.fam.father[d]])) :
                          SonList(verdict.fam,
                                  verdict.fam.son[verdict.fam.father[d]])[j] = d}) = 1
            /\ \A q \in Range(oids) : ImmediateParent(q, d) => verdict.fam.father[d] = q

\* an instance of the sorted array directly follows one two or more levels up
LevelMissing ==
    \E j \in 1..(Len(verdict.refs) - 1) :
        Level(verdict.refs[j + 1]) > Level(verdict.refs[j]) + 1

ChildListedFirst ==
    /\ doc = <<"/a:1/c:1", "/a:1">>
    /\ Len(msgs) >= 1
    /\ msgs[1].kind = "ADD"
    /\ msgs[1].oid = "/a:1"

\* no status was injected and cfg_ta_sync() changed nothing
Undisturbed == faults = MaxFaults /\ budget = MaxSyncChanges

\* C31 (as stated): with the child listed before its parent and neither live,
\* the first walk gets TE_ENOENT for the ADD of the child, the next walk adds
\* it, and the restore returns 0.
C31_EnoentThenRecovery ==
    (ChildListedFirst /\ Undisturbed /\ Done) =>
        /\ rc = "OK"
        /\ \E j \in 1..Len(msgs) :
              /\ msgs[j].kind = "ADD" /\ msgs[j].oid = "/a:1/c:1"
              /\ msgs[j].rc = "TE_ENOENT" /\ msgs[j].walk = 1
        /\ \E k \in 1..Len(msgs) :
              /\ msgs[k].kind = "ADD" /\ msgs[k].oid = "/a:1/c:1"
              /\ msgs[k].rc = "OK" /\ msgs[k].walk = 2

\* C31 (amended): with the child listed before its parent and neither live,
\* the sort puts the parent first, the first walk adds the parent and then
\* the child, no ADD gets TE_ENOENT, and the restore returns 0.
C31_ParentSortedFirst ==
    /\ (doc = <<"/a:1/c:1", "/a:1">> /\ pc \notin {"start", "idle"}) =>
          list = <<"/a:1", "/a:1/c:1">>
    /\ (ChildListedFirst /\ Undisturbed) =>
        /\ \A k \in 1..Len(msgs) : msgs[k].rc = "OK" /\ msgs[k].walk = 1
        /\ Len(msgs) >= 2 => (msgs[2].kind = "ADD" /\ msgs[2].oid = "/a:1/c:1")
        /\ Done => (rc = "OK" /\ Len(msgs) = 2 /\ live["/a:1"] # 0 /\ live["/a:1/c:1"] # 0)

\* the restore of the child-first document into an empty subtree is over
C31_Witness ==
    /\ ChildListedFirst
    /\ Undisturbed
    /\ Success
    /\ Len(msgs) = 2

\* the walk calls restore_entry() on a descriptor in this step
CallsRestoreEntry(d) ==
    /\ pc = "walk"
    /\ pc' = "restore_entry"
    /\ list[iter] = d

\* C32: the walk of the list never calls restore_entry() on a descriptor that
\* is added or whose object is a unit_part; an ADD or SET for a unit_part
\* instance comes from the recursion under its unit root only, with local set.
C32_WalkSkipsAddedAndUnitPart ==
    /\ [][\A d \in Instances : CallsRestoreEntry(d) =>
             (d \notin added /\ ~UnitPart(ObjOf(d)))]_vars
    /\ [][\A d \in Instances :
             (/\ Len(msgs') = Len(msgs) + 1
              /\ msgs'[Len(msgs')].kind \in {"ADD", "SET"}
              /\ msgs'[Len(msgs')].oid = d
              /\ UnitPart(ObjOf(d))) =>
                 /\ msgs'[Len(msgs')].local
                 /\ list[iter] # d
                 /\ list[iter] = ParentOf(d)
                 /\ Unit(ObjOf(list[iter]))]_vars

\* a walk passed over the added unit root and its unit_part son, restored
\* before under the unit root
C32_Witness ==
    /\ pc = "walk"
    /\ nwalk = 2
    /\ iter > Len(list)
    /\ "/u:1" \in added
    /\ \E k \in 1..Len(msgs) :
          msgs[k].oid = "/u:1/x:1" /\ msgs[k].local /\ ~msgs[k].top

\* the first ordinal is the greater, as unsigned numbers
Greater(o1, o2) == o1.hi > o2.hi \/ (o1.hi = o2.hi /\ o1.lo > o2.lo)

\* C33: topo_qsort_predicate(a, b) is negative iff ord(a) > ord(b), zero iff
\* the ordinals are equal and positive iff ord(a) < ord(b), for every pair of
\* uint32 ordinals.
C33_DescendingForEveryPair ==
    verdict.op = "topo" =>
        /\ verdict.sign < 0 <=> Greater(verdict.ord1, verdict.ord2)
        /\ verdict.sign = 0 <=> verdict.ord1 = verdict.ord2
        /\ verdict.sign > 0 <=> Greater(verdict.ord2, verdict.ord1)

\* the walks of the current outer pass so far
WalksOfPass ==
    {msgs[k].walk : k \in {j \in 1..Len(msgs) : msgs[j].pass = passes}} \cup {nwalk}

\* C34: a further walk of the list is started only after a walk with a
\* successful ADD or SET and a TE_ENOENT, and a list of n instances without
\* unit objects is walked at most n + 1 times in one outer pass.
C34_InnerLoopBounded ==
    /\ [][(pc = "walk" /\ pc' = "walk" /\ nwalk' = nwalk + 1) =>
            /\ \E j \in 1..Len(msgs) :
                  /\ msgs[j].walk = nwalk /\ msgs[j].pass = passes
                  /\ AddSet(j) /\ msgs[j].rc = "OK"
            /\ \E k \in 1..Len(msgs) :
                  /\ msgs[k].walk = nwalk /\ msgs[k].pass = passes
                  /\ AddSet(k) /\ msgs[k].rc = "TE_ENOENT"]_vars
    /\ []((/\ pc \in {"walk", "restore_entry"}
           /\ \A d \in Range(list) : ~Unit(ObjOf(d))) =>
              Cardinality(WalksOfPass) <= Len(list) + 1)

\* a second walk of a list without unit objects is over
C34_Witness ==
    /\ pc = "walk"
    /\ iter > Len(list)
    /\ \A d \in Range(list) : ~Unit(ObjOf(d))
    /\ Cardinality(WalksOfPass) = 2
    /\ \E k \in 1..Len(msgs) : msgs[k].walk = nwalk /\ msgs[k].rc = "TE_ENOENT"

\* an ADD or SET is sent for the instance in this step
AddSetSent(d) ==
    /\ Len(msgs') = Len(msgs) + 1
    /\ msgs'[Len(msgs')].kind \in {"ADD", "SET"}
    /\ msgs'[Len(msgs')].oid = d

\* the instance lies in no unit subtree: its object is neither a unit nor a
\* unit_part
OutsideUnits(d) == ~Unit(ObjOf(d)) /\ ~UnitPart(ObjOf(d))

\* C35: no ADD or SET is issued for a desired instance outside the unit
\* subtrees once it is marked added, whatever cfg_ta_sync() made of it; the
\* added flag is set only when add_or_set() returned 0, and is never reset.
C35_AddedIsFinal ==
    [][/\ added \subseteq added'
       /\ \A d \in Instances :
             /\ (AddSetSent(d) /\ OutsideUnits(d)) => d \notin added
             /\ (d \in added' /\ d \notin added) =>
                   /\ pc = "restore_entry"
                   /\ todo # <<>>
                   /\ d = Head(todo)
                   /\ pc' = "restore_entry"
                   /\ \/ msgs' = msgs
                      \/ AddSetSent(d) /\ msgs'[Len(msgs')].rc = "OK"]_vars

\* cfg_ta_sync() took an added instance out of the live store, and the next
\* outer pass walked the list without sending anything for it
C35_Witness ==
    /\ passes = 2
    /\ pc = "sync"
    /\ \E d \in added :
          /\ OutsideUnits(d)
          /\ live[d] = 0
          /\ Cardinality({k \in 1..Len(msgs) : msgs[k].oid = d}) = 1

\* the OID lies under /agent:A: it is /agent:A or goes on with a "/"
UnderAgent(d) ==
    /\ strcmp_start(Chars("/agent:A"), Chars(d)) = 0
    /\ At(Chars(d), Len(Chars("/agent:A"))) \in {"NUL", "/"}

\* C36: cfg_backup_restore_ta("A") issues no DEL, ADD or SET for an instance
\* whose OID does not lie under /agent:A.
C36_OnlyAgentSubtreeTouched ==
    /\ \A k \in 1..Len(dels) : UnderAgent(dels[k].oid)
    /\ \A k \in 1..Len(msgs) : AddSet(k) => UnderAgent(msgs[k].oid)

\* parse_instances() has a reason to reject the j-th node of the document
Malformed(j) ==
    /\ xml[j].name \notin {"comment", "text"}
    /\ \/ xml[j].name # "instance"
       \/ xml[j].children # <<>>
       \/ xml[j].oid = NULL
       \/ cfg_get_object(robjs, xml[j].oid) = NULL
       \/ /\ Type(cfg_get_object(robjs, xml[j].oid)) # "CVT_NONE"
          /\ \/ xml[j].value = NULL
             \/ str2val(xml[j].value).rc # "OK"
       \/ /\ Type(cfg_get_object(robjs, xml[j].oid)) = "CVT_NONE"
          /\ xml[j].value # NULL

\* register_objects() returned 0 and left a node for parse_instances()
\* that it rejects
ParseMustFail ==
    /\ rpc # "register"
    /\ rexit \notin {"register", "empty"}
    /\ \E j \in rcur..Len(xml) : Malformed(j)

\* C37: when parse_instances() fails on a node, cfg_backup_process_file()
\* returns its error at once: neither cfg_ta_sync() nor restore_entries() is
\* called, so no DEL, ADD, SET or COMMIT is issued and the live store is as
\* it was.
C37_ValidationPrecedesMutation ==
    ParseMustFail =>
        \/ rpc = "parse"
        \/ /\ rpc = "returned"
           /\ rexit = "parse"
           /\ rrc \in {"TE_EINVAL", "TE_ENOENT"}

\* parse_instances() accepted an <instance> node and failed on a later one
C37_Witness ==
    /\ rpc = "returned"
    /\ rexit = "parse"
    /\ rcur <= Len(xml)
    /\ xml[rcur].name = "instance"
    /\ ~Malformed(rcur)
    /\ \E j \in (rcur + 1)..Len(xml) : Malformed(j)

\* the OID lies in one of the subtrees: it is the subtree's OID, or goes on
\* with a "/" after it
InSubtrees(st, d) ==
    \E k \in 1..Len(st) :
        /\ strcmp_start(Chars(st[k]), Chars(d)) = 0
        /\ At(Chars(d), Len(Chars(st[k]))) \in {"NUL", "/"}

\* C38: a restore with a non-empty subtree filter issues no ADD, SET, DEL or
\* COMMIT for an instance outside the subtrees, also when the document
\* records such instances.
C38_NothingOutsideSubtrees ==
    subtrees # <<>> =>
        /\ \A k \in 1..Len(msgs) : InSubtrees(subtrees, msgs[k].oid)
        /\ \A k \in 1..Len(dels) : InSubtrees(subtrees, dels[k].oid)

\* C39: when the restore has returned, every ADD or SET sent with local set
\* that returned 0 is followed by a COMMIT for its unit root, sent by the
\* same call of restore_entry().
C39_NoChangeLeftUncommitted ==
    Done =>
        \A k \in 1..Len(msgs) :
            (AddSet(k) /\ msgs[k].local /\ msgs[k].rc = "OK") =>
                \E j \in (k + 1)..Len(msgs) :
                    /\ msgs[j].kind = "COMMIT"
                    /\ msgs[j].call = msgs[k].call
                    /\ Unit(ObjOf(msgs[j].oid))

=============================================================================
